---- MODULE Spec2Model ----
(***************************************************************************)
(* trait-winnower: the bound coordinate model, the single-bound editor and *)
(* the trial / verify / revert engine (src/dynamic_analysis), driven by    *)
(* the prune command of src/bin/trait-winnower.rs.                         *)
(*                                                                         *)
(* A syntax tree (syn::File) is a sequence of declaration nodes in source  *)
(* order; a node carries its anchor span, kind, identifier, the index of   *)
(* its enclosing node (0 at top level) and its generics.  A text is what   *)
(* is stored in the target file: its formatting class (raw source with the *)
(* author's layout and comments, or prettyplease output) and the printed   *)
(* declarations, which carry no spans.  Coordinates are 0-based as in the  *)
(* source; sequences are 1-based.                                          *)
(***************************************************************************)
EXTENDS Integers, Sequences, FiniteSets, TLC

\* ------------------------------------------------------------------ bounds
MaxBounds == 3
MaxPreds == 2
MaxRuns == 2
\* The width of the checksum space: 8 bits stand for the 32 bits of CRC-32.
HashSpace == 256

\* ------------------------------------------------------------ syntax model
BoundPool == <<"A", "B", "C", "D", "E", "F", "G", "H">>

None == [present |-> FALSE, predicates |-> <<>>]

Some(preds) == [present |-> TRUE, predicates |-> preds]

TypeParam(ident, bounds) ==
  [kind |-> "type", ident |-> ident, colon |-> bounds # <<>>, bounds |-> bounds]

LifetimeParam(ident) ==
  [kind |-> "lifetime", ident |-> ident, colon |-> FALSE, bounds |-> <<>>]

PredicateType(ty, bounds) == [kind |-> "type", ty |-> ty, bounds |-> bounds]

PredicateLifetime(lt) == [kind |-> "lifetime", ty |-> lt, bounds |-> <<>>]

Generics(params, wc) == [params |-> params, where_clause |-> wc]

Decl(kind, ident, parent, generics) ==
  [kind |-> kind, ident |-> ident, parent |-> parent, generics |-> generics]

RECURSIVE SumSeq(_)
SumSeq(s) == IF s = <<>> THEN 0 ELSE Head(s) + SumSeq(Tail(s))

RECURSIVE Flatten(_)
Flatten(ss) == IF ss = <<>> THEN <<>> ELSE Head(ss) \o Flatten(Tail(ss))

Range(s) == {s[k] : k \in 1..Len(s)}

Last(s) == s[Len(s)]

\* The byte content a bound expression contributes to the printed file.  "Z"
\* stands for a bound whose bytes leave the 32-bit checksum of the file
\* unchanged (CRC-32 is not injective).
BoundBytes(b) ==
  CASE b = "A" -> 1 [] b = "B" -> 2 [] b = "C" -> 4 [] b = "D" -> 8
    [] b = "E" -> 16 [] b = "F" -> 32 [] b = "G" -> 64 [] b = "H" -> 128
    [] b = "Z" -> HashSpace [] OTHER -> 1

ParamBytes(p) ==
  1 + (IF p.colon THEN 1 ELSE 0) + SumSeq([k \in 1..Len(p.bounds) |-> BoundBytes(p.bounds[k])])

PredBytes(p) ==
  2 + SumSeq([k \in 1..Len(p.bounds) |-> BoundBytes(p.bounds[k])])

GenericsBytes(g) ==
  SumSeq([k \in 1..Len(g.params) |-> ParamBytes(g.params[k])])
  + (IF g.where_clause.present THEN 1 ELSE 0)
  + SumSeq([k \in 1..Len(g.where_clause.predicates) |-> PredBytes(g.where_clause.predicates[k])])

DeclBytes(d) == 2 + GenericsBytes(d.generics)

TextBytes(text) ==
  (IF text.fmt = "raw" THEN 1 ELSE 0)
  + SumSeq([k \in 1..Len(text.decls) |-> DeclBytes(text.decls[k])])

\* hash_bytes: crc32fast::hash of the text, a digest into a bounded space.
hash_bytes(s) == TextBytes(s) % HashSpace

\* Byte offset of the identifying token of the k-th declaration of a text.
SpanOf(text, k) ==
  (IF text.fmt = "raw" THEN 1 ELSE 0)
  + SumSeq([j \in 1..(k - 1) |-> DeclBytes(text.decls[j])]) + 1

\* syn::parse_file: the tree of a text; every node gets the span of its
\* identifying token in that text, formatting and comments are not kept.
parse_file(text) ==
  [k \in 1..Len(text.decls) |->
     [anchor |-> SpanOf(text, k),
      kind |-> text.decls[k].kind,
      ident |-> text.decls[k].ident,
      parent |-> text.decls[k].parent,
      generics |-> text.decls[k].generics]]

\* prettyplease prints a parameter's colon only together with bounds and a
\* where keyword only together with predicates, whatever the tree's tokens.
PrintGenerics(g) ==
  [params |-> [k \in 1..Len(g.params) |->
                 [g.params[k] EXCEPT !.colon = (g.params[k].bounds # <<>>)]],
   where_clause |-> IF g.where_clause.predicates = <<>> THEN None ELSE g.where_clause]

\* prettyplease::unparse: spans are dropped, layout is the printer's.
unparse(tree) ==
  [fmt |-> "pretty",
   decls |-> [k \in 1..Len(tree) |->
                Decl(tree[k].kind, tree[k].ident, tree[k].parent,
                     PrintGenerics(tree[k].generics))]]

\* The bound expressions present in a generics list, a tree or a text.
BoundsOfGenerics(g) ==
  UNION {Range(g.params[k].bounds) : k \in 1..Len(g.params)}
  \cup UNION {Range(g.where_clause.predicates[k].bounds) :
                k \in 1..Len(g.where_clause.predicates)}

BoundsOfTree(tree) == UNION {BoundsOfGenerics(tree[k].generics) : k \in 1..Len(tree)}

BoundsOfText(text) == UNION {BoundsOfGenerics(text.decls[k].generics) : k \in 1..Len(text.decls)}

\* ------------------------------------------------- Remove (common.rs)
\* Vec::swap_remove in place of the order-preserving rebuild.
remove_punctuated_swap(list, idx) ==
  IF idx >= Len(list)
  THEN [removed |-> FALSE, list |-> list]
  ELSE [removed |-> TRUE,
        list |-> [k \in 1..(Len(list) - 1) |-> IF k = idx + 1 THEN list[Len(list)] ELSE list[k]]]

remove_punctuated_at(list, idx) ==
  IF idx >= Len(list)
  THEN [removed |-> FALSE, list |-> list]
  ELSE [removed |-> TRUE,
        list |-> [k \in 1..(Len(list) - 1) |-> IF k <= idx THEN list[k] ELSE list[k + 1]]]

\* The emptied predicate is left in the clause.
drop_predicate_never(preds, idx) == preds

drop_predicate_at(preds, idx) ==
  IF idx >= Len(preds)
  THEN preds
  ELSE [k \in 1..(Len(preds) - 1) |-> IF k <= idx THEN preds[k] ELSE preds[k + 1]]

remove_tp_bound_by_index(generics, param_index, bound_index) ==
  IF param_index >= Len(generics.params) \/ generics.params[param_index + 1].kind # "type"
  THEN [removed |-> FALSE, generics |-> generics]
  ELSE LET tp == generics.params[param_index + 1]
           r == remove_punctuated_at(tp.bounds, bound_index)
           tp2 == [tp EXCEPT !.bounds = r.list,
                             !.colon = IF r.removed /\ r.list = <<>> THEN FALSE ELSE tp.colon]
       IN [removed |-> r.removed,
           generics |-> [generics EXCEPT !.params[param_index + 1] = tp2]]

\* The predicate is dropped whenever its bound list is empty, whether or not a
\* bound was removed.
remove_where_drop_unconditional(generics, pred_index, bound_index) ==
  IF ~generics.where_clause.present
  THEN [removed |-> FALSE, generics |-> generics]
  ELSE LET wc == generics.where_clause IN
       IF pred_index >= Len(wc.predicates)
       THEN [removed |-> FALSE, generics |-> generics]
       ELSE LET pred == wc.predicates[pred_index + 1] IN
            IF pred.kind # "type"
            THEN [removed |-> FALSE, generics |-> generics]
            ELSE LET r == remove_punctuated_at(pred.bounds, bound_index)
                     preds1 == [wc.predicates EXCEPT ![pred_index + 1].bounds = r.list]
                     preds2 == IF r.list = <<>>
                               THEN drop_predicate_at(preds1, pred_index)
                               ELSE preds1
                     wc2 == IF r.list = <<>> /\ preds2 = <<>>
                            THEN None
                            ELSE [wc EXCEPT !.predicates = preds2]
                 IN [removed |-> r.removed,
                     generics |-> [generics EXCEPT !.where_clause = wc2]]

remove_where_bound_by_index(generics, pred_index, bound_index) ==
  IF ~generics.where_clause.present
  THEN [removed |-> FALSE, generics |-> generics]
  ELSE LET wc == generics.where_clause IN
       IF pred_index >= Len(wc.predicates)
       THEN [removed |-> FALSE, generics |-> generics]
       ELSE LET pred == wc.predicates[pred_index + 1] IN
            IF pred.kind # "type"
            THEN [removed |-> FALSE, generics |-> generics]
            ELSE LET r == remove_punctuated_at(pred.bounds, bound_index)
                     preds1 == [wc.predicates EXCEPT ![pred_index + 1].bounds = r.list]
                     preds2 == IF r.removed /\ r.list = <<>>
                               THEN drop_predicate_at(preds1, pred_index)
                               ELSE preds1
                     wc2 == IF r.removed /\ r.list = <<>> /\ preds2 = <<>>
                            THEN None
                            ELSE [wc EXCEPT !.predicates = preds2]
                 IN [removed |-> r.removed,
                     generics |-> [generics EXCEPT !.where_clause = wc2]]

apply_to_item_with_generics(generics, candidate) ==
  IF candidate.site.tag = "TypeParam"
  THEN remove_tp_bound_by_index(generics, candidate.site.param_index, candidate.site.bound_index)
  ELSE remove_where_bound_by_index(generics, candidate.site.pred_index, candidate.site.bound_index)

\* ------------------------------------------- Collector (analysis.rs)
\* param_index counted over the recorded parameters only.
type_param_bounds_dense(gens) ==
  LET kept == Flatten([k \in 1..Len(gens.params) |->
                         IF gens.params[k].kind = "type" /\ gens.params[k].bounds # <<>>
                         THEN <<gens.params[k]>>
                         ELSE <<>>])
  IN [k \in 1..Len(kept) |->
        [ident |-> kept[k].ident, bounds |-> kept[k].bounds, param_index |-> k - 1]]

type_param_bounds(gens) ==
  Flatten([k \in 1..Len(gens.params) |->
             IF gens.params[k].kind = "type" /\ gens.params[k].bounds # <<>>
             THEN <<[ident |-> gens.params[k].ident,
                     bounds |-> gens.params[k].bounds,
                     param_index |-> k - 1]>>
             ELSE <<>>])

where_bounds(gens) ==
  IF ~gens.where_clause.present
  THEN <<>>
  ELSE LET preds == gens.where_clause.predicates IN
       Flatten([k \in 1..Len(preds) |->
                  IF preds[k].kind = "type" /\ preds[k].bounds # <<>>
                  THEN <<[ty |-> preds[k].ty,
                          bounds |-> preds[k].bounds,
                          pred_index |-> k - 1]>>
                  ELSE <<>>])

\* ItemKey::ident_opt: impl blocks have no identifier.
ident_opt(node) ==
  IF node.kind = "impl"
  THEN [some |-> FALSE, name |-> ""]
  ELSE [some |-> TRUE, name |-> node.ident]

\* Only the type-parameter bounds decide whether a record is pushed.
push_if_type_params(node) ==
  LET tp == type_param_bounds(node.generics)
      wb == where_bounds(node.generics)
  IN IF tp # <<>>
     THEN <<[item |-> [ident |-> ident_opt(node), span |-> node.anchor],
             type_params |-> tp,
             where_preds |-> wb]>>
     ELSE <<>>

push_if_any(node) ==
  LET tp == type_param_bounds(node.generics)
      wb == where_bounds(node.generics)
  IN IF tp # <<>> \/ wb # <<>>
     THEN <<[item |-> [ident |-> ident_opt(node), span |-> node.anchor],
             type_params |-> tp,
             where_preds |-> wb]>>
     ELSE <<>>

\* The records of one declaration kind, in the order the visitor meets them.
ItemsOfKind(file, kind) ==
  Flatten([k \in 1..Len(file) |-> IF file[k].kind = kind THEN push_if_any(file[k]) ELSE <<>>])

\* Methods are pushed while their owner is visited, before the visitor
\* descends into the owner's bodies.
MethodsOfKind(file, kind) ==
  Flatten([p \in 1..Len(file) |->
             Flatten([k \in 1..Len(file) |->
                        IF file[k].kind = kind /\ file[k].parent = p
                        THEN push_if_any(file[k])
                        ELSE <<>>])])

collect_items_in_file(file) ==
  [fns |-> ItemsOfKind(file, "fn"),
   traits |-> ItemsOfKind(file, "trait"),
   impls |-> ItemsOfKind(file, "impl"),
   trait_methods |-> MethodsOfKind(file, "trait_fn"),
   impl_methods |-> MethodsOfKind(file, "impl_fn"),
   enums |-> ItemsOfKind(file, "enum"),
   structs |-> ItemsOfKind(file, "struct")]

\* ------------------------------------- BoundCandidate (common.rs)
push_type_param_candidates(tp) ==
  [k \in 1..Len(tp.bounds) |->
     [site |-> [tag |-> "TypeParam", ident |-> tp.ident,
                param_index |-> tp.param_index, bound_index |-> k - 1],
      bound |-> tp.bounds[k]]]

\* bound_index counted from 1.
push_where_candidates_one_based(wb) ==
  [k \in 1..Len(wb.bounds) |->
     [site |-> [tag |-> "WhereClause", ty |-> wb.ty,
                pred_index |-> wb.pred_index, bound_index |-> k],
      bound |-> wb.bounds[k]]]

push_where_candidates(wb) ==
  [k \in 1..Len(wb.bounds) |->
     [site |-> [tag |-> "WhereClause", ty |-> wb.ty,
                pred_index |-> wb.pred_index, bound_index |-> k - 1],
      bound |-> wb.bounds[k]]]

collect_first_only(b) ==
  IF b.type_params = <<>>
  THEN <<>>
  ELSE SubSeq(push_type_param_candidates(b.type_params[1]), 1, 1)

collect_candidates(b) ==
  Flatten([k \in 1..Len(b.type_params) |-> push_type_param_candidates(b.type_params[k])])
  \o Flatten([k \in 1..Len(b.where_preds) |-> push_where_candidates(b.where_preds[k])])

\* ------------------------------------------- BoundEditor (edit.rs)
spans_equal(span1, span2) == span1 = span2

\* The traversal enters modules, impl blocks and traits; it does not enter
\* the body of a function or method.
RECURSIVE Visited(_, _)
Visited(tree, k) ==
  \/ tree[k].parent = 0
  \/ /\ tree[tree[k].parent].kind \in {"mod", "impl", "trait"}
     /\ Visited(tree, tree[k].parent)

\* The anchor is not compared: any node of the wanted name is taken.
NodeMatchesByName(node, target_ident, target_anchor) ==
  /\ node.kind # "mod"
  /\ ~(target_ident.some /\ ident_opt(node).some /\ target_ident.name # ident_opt(node).name)

\* The conditions of try_edit_node under which the removal is attempted.
NodeMatches(node, target_ident, target_anchor) ==
  /\ node.kind # "mod"
  /\ spans_equal(node.anchor, target_anchor)
  /\ ~(target_ident.some /\ ident_opt(node).some /\ target_ident.name # ident_opt(node).name)

\* The removal works on the node in place; the traversal goes on while
\* nothing was removed.
RECURSIVE EditFrom(_, _, _, _, _)
EditFrom(tree, k, target_ident, target_anchor, candidate) ==
  IF k > Len(tree)
  THEN [modified |-> FALSE, tree |-> tree]
  ELSE IF Visited(tree, k) /\ NodeMatches(tree[k], target_ident, target_anchor)
       THEN LET r == apply_to_item_with_generics(tree[k].generics, candidate)
                edited == [tree EXCEPT ![k].generics = r.generics]
            IN IF r.removed
               THEN [modified |-> TRUE, tree |-> edited]
               ELSE EditFrom(edited, k + 1, target_ident, target_anchor, candidate)
       ELSE EditFrom(tree, k + 1, target_ident, target_anchor, candidate)

visit_file_mut(tree, target_ident, target_anchor, candidate) ==
  EditFrom(tree, 1, target_ident, target_anchor, candidate)

\* The bound now found at a candidate's coordinate, "" when there is none.
BoundAtSite(generics, site) ==
  IF site.tag = "TypeParam"
  THEN IF /\ site.param_index < Len(generics.params)
          /\ generics.params[site.param_index + 1].kind = "type"
          /\ site.bound_index < Len(generics.params[site.param_index + 1].bounds)
       THEN generics.params[site.param_index + 1].bounds[site.bound_index + 1]
       ELSE ""
  ELSE IF /\ site.pred_index < Len(generics.where_clause.predicates)
          /\ generics.where_clause.predicates[site.pred_index + 1].kind = "type"
          /\ site.bound_index < Len(generics.where_clause.predicates[site.pred_index + 1].bounds)
       THEN generics.where_clause.predicates[site.pred_index + 1].bounds[site.bound_index + 1]
       ELSE ""

\* The generics of the node a target anchor designates.
GenericsAt(tree, target_anchor) ==
  LET ks == {k \in 1..Len(tree) : tree[k].anchor = target_anchor}
  IN IF ks = {} THEN Generics(<<>>, None) ELSE tree[CHOOSE k \in ks : TRUE].generics

\* ----------------------------------------------------------- input files
PoolSeq(from, n) == [k \in 1..n |-> BoundPool[from + k - 1]]

TyNames == <<"T", "U", "V", "W">>

\* fn f<T: b1 + ... + bn>()
OneParamSrc(n, fmt) ==
  [fmt |-> fmt,
   decls |-> <<Decl("fn", "f", 0, Generics(<<TypeParam("T", PoolSeq(1, n))>>, None))>>]

\* A where-clause shape gives, per predicate, 0 for a lifetime predicate or
\* the number of bounds of a type predicate.
PredShapes ==
  {sh \in UNION {[1..n -> 0..2] : n \in 1..MaxPreds} :
     SumSeq(sh) >= 1 /\ SumSeq(sh) <= MaxBounds}

PredsOf(sh) ==
  [k \in 1..Len(sh) |->
     IF sh[k] = 0
     THEN PredicateLifetime("'a")
     ELSE PredicateType(TyNames[k], PoolSeq(1 + SumSeq(SubSeq(sh, 1, k - 1)), sh[k]))]

\* fn g<'a, T, U>() where <predicates of the shape>
WhereSrc(sh, fmt) ==
  [fmt |-> fmt,
   decls |-> <<Decl("fn", "g", 0,
                    Generics(<<LifetimeParam("'a")>>
                               \o [k \in 1..Len(sh) |-> TypeParam(TyNames[k], <<>>)],
                             Some(PredsOf(sh))))>>]

\* fn h<'a, T: A + B, U>() where U: C
MixedSrc ==
  [fmt |-> "raw",
   decls |-> <<Decl("fn", "h", 0,
                    Generics(<<LifetimeParam("'a"), TypeParam("T", <<"A", "B">>),
                               TypeParam("U", <<>>)>>,
                             Some(<<PredicateType("U", <<"C">>)>>)))>>]

\* fn f<T: A + Z>(), already in the printer's layout
ChecksumSrc ==
  [fmt |-> "pretty",
   decls |-> <<Decl("fn", "f", 0, Generics(<<TypeParam("T", <<"A", "Z">>)>>, None))>>]

\* fn f<T: A>() {}  impl<U: B> S<U> {}
TwoKindSrc ==
  [fmt |-> "raw",
   decls |-> <<Decl("fn", "f", 0, Generics(<<TypeParam("T", <<"A">>)>>, None)),
               Decl("impl", "", 0, Generics(<<TypeParam("U", <<"B">>)>>, None))>>]

\* One declaration of every kind, each with one bound; the function lives in
\* a module, the methods in their impl block and trait.
AllKindsSrc ==
  [fmt |-> "raw",
   decls |-> <<Decl("mod", "m", 0, Generics(<<>>, None)),
               Decl("fn", "f", 1, Generics(<<TypeParam("T", <<"A">>)>>, None)),
               Decl("impl", "", 0, Generics(<<LifetimeParam("'a"), TypeParam("U", <<"B">>)>>, None)),
               Decl("impl_fn", "m", 3,
                    Generics(<<TypeParam("V", <<>>)>>, Some(<<PredicateType("V", <<"C">>)>>))),
               Decl("trait", "Tr", 0, Generics(<<TypeParam("W", <<"D">>)>>, None)),
               Decl("trait_fn", "t", 5, Generics(<<TypeParam("X", <<"E">>)>>, None)),
               Decl("enum", "En", 0, Generics(<<TypeParam("Y", <<"F">>)>>, None)),
               Decl("struct", "St", 0, Generics(<<TypeParam("Q", <<"G">>)>>, None))>>]

\* cli::TargetType and the order in which main runs the passes for All.
PruneOrder ==
  <<"function", "impl", "trait", "trait_method", "impl_method", "enum", "struct">>

TargetTypes == {"all"} \cup Range(PruneOrder)

\* The selection is ignored: every pruner is called.
PassesOfAll(tt) == PruneOrder

PassesOf(tt) == IF tt = "all" THEN PruneOrder ELSE <<tt>>

ItemsField(k) ==
  CASE k = "function" -> "fns" [] k = "impl" -> "impls" [] k = "trait" -> "traits"
    [] k = "trait_method" -> "trait_methods" [] k = "impl_method" -> "impl_methods"
    [] k = "enum" -> "enums" [] k = "struct" -> "structs"

\* The verifier: any exit status on any invocation, or a deterministic one
\* that succeeds exactly when every required bound is still in the file.
AnyVerifier == [det |-> FALSE, required |-> {}]

DetVerifier(req) == [det |-> TRUE, required |-> req]

VerifiersFor(src) == {AnyVerifier} \cup {DetVerifier(r) : r \in SUBSET BoundsOfText(src)}

Run(src, v, tt) == [src |-> src, verifier |-> v, target_type |-> tt]

Inputs ==
  UNION {{Run(OneParamSrc(n, f), v, "function") :
            f \in {"raw", "pretty"}, v \in VerifiersFor(OneParamSrc(n, "raw"))} :
           n \in 1..MaxBounds}
  \cup UNION {{Run(WhereSrc(sh, "raw"), v, "function") : v \in VerifiersFor(WhereSrc(sh, "raw"))} :
                sh \in PredShapes}
  \cup {Run(MixedSrc, v, tt) : v \in VerifiersFor(MixedSrc), tt \in {"function", "all"}}
  \cup {Run(ChecksumSrc, v, "function") : v \in VerifiersFor(ChecksumSrc)}
  \cup {Run(TwoKindSrc, v, "all") : v \in VerifiersFor(TwoKindSrc)}
  \cup {Run(AllKindsSrc, DetVerifier(r), tt) :
          r \in {{}, {"B", "E"}, BoundsOfText(AllKindsSrc)}, tt \in TargetTypes}

\* cli::Cli as main reads it: the subcommand, the --brute-force flag and what
\* TargetKind::get_target makes of the target path (a workspace root is
\* treated as a crate root).
Args(command, brute_force, target) ==
  [command |-> command, brute_force |-> brute_force, target |-> target]

BruteForcePrune == Args("prune", TRUE, "Crate")

AllArgs ==
  {Args(c, b, t) : c \in {"prune", "check"}, b \in BOOLEAN, t \in {"SingleFile", "Crate"}}

executes_without_flag(a) == a.command = "prune" /\ a.target = "Crate"

\* The condition under which main parses files and calls the pruners.
executes(a) == a.command = "prune" /\ a.target = "Crate" /\ a.brute_force

\* The command lines: every run of Inputs as prune --brute-force on a crate,
\* and some files under every other combination of arguments.
Invocations ==
  {[run |-> inp, args |-> BruteForcePrune] : inp \in Inputs}
  \cup {[run |-> Run(src, AnyVerifier, tt), args |-> a] :
          src \in {AllKindsSrc, MixedSrc}, tt \in {"all", "function", "impl_method"},
          a \in AllArgs \ {BruteForcePrune}}

\* ------------------------------------------------ file system and front end
\* A path of the file system as the front end sees it: what fs::metadata
\* reports, the result of Path::extension, the Cargo.toml and the
\* .trait-winnower.toml of a directory, what a walk of the directory meets,
\* and the bytes of a file.
Node(kind, ext, manifest, config, entries, content) ==
  [kind |-> kind, ext |-> ext, manifest |-> manifest, config |-> config,
   entries |-> entries, content |-> content]

\* Bytes that are not a Rust source file, and a file that cannot be read.
Garbage == [fmt |-> "garbage", decls |-> <<>>]

Unreadable == [fmt |-> "unreadable", decls |-> <<>>]

\* A small file of a directory: absent, present but not readable as text
\* (its bytes are not UTF-8), or a text given by its lines.
NoFile == [state |-> "absent", lines |-> <<>>]

BadFile == [state |-> "unreadable", lines |-> <<>>]

TextFile(lines) == [state |-> "text", lines |-> lines]

Ok(value) == [ok |-> TRUE, value |-> value, context |-> "", path |-> <<>>]

Err(context, path) == [ok |-> FALSE, value |-> <<>>, context |-> context, path |-> path]

NoError == Ok(<<>>)

without_context(context, path) == Err(context, <<>>)

\* anyhow's with_context: the error with a message that names the path.
with_context(context, path) == Err(context, path)

NoPath == "none"

\* raw.unwrap_or_else(|| PathBuf::from("."))
unwrap_or(raw, default) == IF raw = NoPath THEN default ELSE raw

\* The directory a relative one-component path lives in.
parent(path) == "."

is_rs_any(node) == node.ext # ""

\* path.extension().and_then(|s| s.to_str()) == Some("rs")
is_rs(node) == node.ext = "rs"

\* cargo.exists() for cargo = path.join("Cargo.toml")
cargo_exists(node) == node.kind = "dir" /\ node.manifest.state # "absent"

\* fs::read_to_string(&cargo).unwrap_or_default()
read_to_string_or_default(manifest) ==
  IF manifest.state = "text" THEN manifest.lines ELSE <<>>

\* toml.contains("[workspace]") on a text given by its lines
contains(toml, marker) == \E k \in 1..Len(toml) : toml[k] = marker

TargetKind(variant, path) == [variant |-> variant, path |-> path]

\* TargetKind::get_target
get_target(tree, raw) ==
  LET path == unwrap_or(raw, ".")
      node == tree[path]
  IN IF node.kind = "missing" THEN Err("target not found", <<path>>)
     ELSE IF node.kind = "file"
       THEN IF ~is_rs(node)
            THEN Err("single-file mode requires a .rs file", <<path>>)
            ELSE Ok(TargetKind("SingleFile", path))
     ELSE IF ~cargo_exists(node) THEN Err("no Cargo.toml", <<path>>)
     ELSE IF contains(read_to_string_or_default(node.manifest), "[workspace]")
       THEN Ok(TargetKind("Workspace", path))
       ELSE Ok(TargetKind("Crate", path))

\* ------------------------------------------------------- config (config.rs)
CargoCheckConfig(args_) == [args |-> args_]

Config(include, exclude, cargo_check) ==
  [include |-> include, exclude |-> exclude, cargo_check |-> cargo_check]

\* impl Default for CargoCheckConfig
DefaultCargoCheck ==
  CargoCheckConfig(<<"--workspace", "--all-features", "--all-targets", "--quiet">>)

\* impl Default for Config
DefaultConfig ==
  Config(<<"**/*.rs">>, <<"target/**", "**/.git/**", "**/tests/**">>, DefaultCargoCheck)

\* A TOML document is a sequence of key lines, each in a table ("" is the
\* root table); a line with the key "=" does not scan.
Line(table, key, value) == [table |-> table, key |-> key, value |-> value]

\* toml::to_string_pretty(&Config)
to_string_pretty(c) ==
  <<Line("", "include", c.include), Line("", "exclude", c.exclude),
    Line("cargo_check", "args", c.cargo_check.args)>>

LinesOf(s, table, key) == {k \in 1..Len(s) : s[k].table = table /\ s[k].key = key}

\* toml::from_str::<Config>: every field is required, an unknown key is
\* ignored, a repeated key and a line that does not scan are errors.
from_str(s) ==
  LET field(table, key) == s[CHOOSE k \in LinesOf(s, table, key) : TRUE].value
      required == {<<"", "include">>, <<"", "exclude">>, <<"cargo_check", "args">>}
  IN IF \E k \in 1..Len(s) : s[k].key = "=" THEN Err("TOML parse error", <<>>)
     ELSE IF \E f \in required : Cardinality(LinesOf(s, f[1], f[2])) > 1
       THEN Err("duplicate key", <<>>)
     ELSE IF \E f \in required : LinesOf(s, f[1], f[2]) = {} THEN Err("missing field", <<>>)
     ELSE Ok(Config(field("", "include"), field("", "exclude"),
                    CargoCheckConfig(field("cargo_check", "args"))))

keep_loaded(list, default) == list

\* if list.is_empty() { list = default }
or_default(list, default) == IF list = <<>> THEN default ELSE list

\* base of load_or_default and write_default_config_at
base_of(tree, dir) == IF tree[dir].kind = "file" THEN parent(dir) ELSE dir

\* file.exists() for file = base.join(".trait-winnower.toml")
config_exists(tree, base) == tree[base].kind = "dir" /\ tree[base].config.state # "absent"

\* Config::load_or_default
load_or_default(tree, dir) ==
  LET base == base_of(tree, dir)
      s == tree[base].config
      parsed == from_str(s.lines)
      cfg == parsed.value
  IN IF config_exists(tree, base)
     THEN IF s.state # "text" THEN Err("read", <<>>)
          ELSE IF ~parsed.ok THEN parsed
          ELSE Ok(Config(or_default(cfg.include, DefaultConfig.include),
                         or_default(cfg.exclude, DefaultConfig.exclude),
                         IF cfg.cargo_check.args = <<>>
                         THEN DefaultCargoCheck ELSE cfg.cargo_check))
     ELSE Ok(DefaultConfig)

should_write_always(exists, force) == TRUE

\* !file.exists() || force
should_write(exists, force) == ~exists \/ force

\* Config::write_default_config_at: the file system it leaves and its result.
\* The write fails when the directory does not exist.
write_default_config_at(tree, dir, force) ==
  LET base == base_of(tree, dir)
  IN IF should_write(config_exists(tree, base), force)
     THEN IF tree[base].kind # "dir"
          THEN [tree |-> tree, result |-> Err("write", <<>>)]
          ELSE [tree |-> [tree EXCEPT ![base].config = TextFile(to_string_pretty(DefaultConfig))],
                result |-> Ok(base)]
     ELSE [tree |-> tree, result |-> Ok(base)]

\* ------------------------------------------------- discovery (discover.rs)
\* A directory entry the walk can meet: its root-relative path as a
\* sequence of components, its file type, whether an ignore file (.ignore,
\* .gitignore, git's exclude files) covers it, and the bytes of a file.
DirEntry(rel, type, ignored, content) ==
  [rel |-> rel, type |-> type, ignored |-> ignored, content |-> content]

\* Path::extension of a file name of the catalogue.
extension(name) ==
  CASE name \in {"lib.rs", "gen.rs", "it.rs", "build.rs", "link.rs", "a.rs", "b.rs"} -> "rs"
    [] name \in {"README.md"} -> "md"
    [] OTHER -> ""

\* Glob::new(p) fails on an unclosed character class.
glob_valid(p) == p # "["

\* GlobMatcher::is_match of one pattern on a root-relative path.
glob_match(p, rel) ==
  CASE p = "**/*" -> TRUE
    [] p = "**/*.rs" -> extension(Last(rel)) = "rs"
    [] p = "src/**" -> Len(rel) >= 2 /\ rel[1] = "src"
    [] p = "target/**" -> Len(rel) >= 2 /\ rel[1] = "target"
    [] p = "**/.git/**" -> \E k \in 1..(Len(rel) - 1) : rel[k] = ".git"
    [] p = "**/tests/**" -> \E k \in 1..(Len(rel) - 1) : rel[k] = "tests"
    [] OTHER -> FALSE

\* GlobSet::is_match
is_match(set, rel) == \E k \in 1..Len(set) : glob_match(set[k], rel)

\* Discover::globset
globset(patterns) ==
  IF \E k \in 1..Len(patterns) : ~glob_valid(patterns[k])
  THEN Err("error parsing glob", <<>>) ELSE Ok(patterns)

walk_everything(entries) == [k \in 1..Len(entries) |-> k]

\* WalkBuilder with ignore, git_ignore, git_exclude and git_global set and
\* follow_links off: the indexes of the entries no ignore file covers, in
\* walk order.
walk(entries) ==
  LET visited(k) == ~entries[k].ignored
  IN SelectSeq([k \in 1..Len(entries) |-> k], visited)

\* Discover::discover_rs_files: the indexes of the returned entries.
discover_rs_files(entries, include, exclude) ==
  LET inc == IF include = <<>> THEN <<"**/*">> ELSE include
      inc_set == globset(inc)
      exc_set == globset(exclude)
      keep(k) == /\ entries[k].type = "file"
                 /\ extension(Last(entries[k].rel)) = "rs"
                 /\ is_match(inc_set.value, entries[k].rel)
                 /\ ~is_match(exc_set.value, entries[k].rel)
  IN IF ~inc_set.ok THEN inc_set
     ELSE IF ~exc_set.ok THEN exc_set
     ELSE Ok(SelectSeq(walk(entries), keep))

\* usize::MAX
Unbounded == 1000

\* main's top from args.number_of_items: the sentinels all / max / maxx in
\* any case are usize::MAX, a decimal number is itself, anything else and
\* absence are 10.
top_of(number_of_items) ==
  CASE number_of_items \in {"all", "ALL", "max", "maxx"} -> Unbounded
    [] number_of_items = "0" -> 0
    [] number_of_items = "1" -> 1
    [] number_of_items = "2" -> 2
    [] OTHER -> 10

\* files.iter().take(top)
take(files, top) == SubSeq(files, 1, IF top < Len(files) THEN top ELSE Len(files))

\* ------------------------------------------------------------------ state
VARIABLES
  disk,            \* the bytes of the target file
  verifier,        \* the behaviour of the external cargo check
  target_type,     \* cli: --target-type
  args,            \* cli: the subcommand, --brute-force and the kind of the target path
  run,             \* how many times the command has been started
  pc,              \* position of the program
  file,            \* main: the parsed syn::File
  items,           \* main: ItemBounds collected from file
  queue,           \* main: the prune passes still to call
  kind,            \* the pass being run
  syntax,          \* prune: the caller's tree (a clone of file)
  original_src,    \* prune: the text read at the start of the pass
  working,         \* prune: the working tree
  current_src,     \* prune: the baseline text
  current_hash,    \* prune: the baseline checksum
  outcomes,        \* prune: the ledger
  candidates,      \* prune: the candidate list of this pass over the item
  ci,              \* prune: position in the candidate list (1-based)
  removed_any,     \* prune: an acceptance happened in this pass
  try_working,     \* trial: the mutated copy
  modified,        \* trial: editor.modified()
  updated_src,     \* trial: the printed trial text
  updated_hash,    \* trial: its checksum
  pre_run,         \* history: the file's bytes when the command started
  verified,        \* history: the texts the verifier accepted
  verifier_runs,   \* history: invocations of this pass that returned an exit status
  trial,           \* history: what happened in the trial last started in this pass
  removed_bounds,  \* history: bounds whose removal was accepted in this run
  stats,           \* history: trial texts written, acceptances and no-op skips in this run
  last_removed,    \* history: candidate bound / bound taken out at the last acceptance
  fs,              \* the file system: what each path the command can name holds
  cmd,             \* cli: the command line before the target is resolved
  target,          \* main: the TargetKind the target path resolved to
  cfg,             \* main: the loaded Config
  files,           \* main: the discovered files, as indexes of the root's entries
  todo,            \* main: the files the loop has not finished, the current one first
  error            \* the error main returns

vars ==
  <<disk, verifier, target_type, args, run, pc, file, items, queue, kind, syntax,
    original_src, working, current_src, current_hash, outcomes, candidates, ci,
    removed_any, try_working, modified, updated_src, updated_hash, pre_run,
    verified, verifier_runs, trial, removed_bounds, stats, last_removed,
    fs, cmd, target, cfg, files, todo, error>>

cliVars == <<fs, cmd, target, cfg, files, todo>>

mainVars == <<file, items, queue>>

pruneVars == <<kind, syntax, original_src, working, current_src, current_hash, outcomes>>

passVars == <<candidates, ci, removed_any>>

trialVars == <<try_working, modified, updated_src, updated_hash>>

envVars == <<verifier, target_type, args, run, pre_run, cliVars, error>>

NoText == [fmt |-> "pretty", decls |-> <<>>]

NoTrial ==
  [begun |-> 0, returned |-> FALSE, hash_equal |-> FALSE, written |-> FALSE,
   ran |-> FALSE, status |-> "none", before |-> NoText, baseline |-> NoText]

bounds == items[ItemsField(kind)]

\* The paths a command line can name: the current directory and one other.
Paths == {".", "p"}

NoTarget == TargetKind("none", "")

NoCmd ==
  [command |-> "none", target |-> NoPath, force |-> FALSE, brute_force |-> FALSE,
   number_of_items |-> NoPath]

NoFs == [path \in Paths |-> Node("missing", "", NoFile, NoFile, <<>>, NoText)]

\* The front end has not run: the command line is given resolved, as args.
CliIdle ==
  /\ fs = NoFs
  /\ cmd = NoCmd
  /\ target = NoTarget
  /\ cfg = DefaultConfig
  /\ files = <<>>
  /\ todo = <<>>
  /\ error = NoError

\* crate_root of the pass: the resolved root.
crate_root == IF target.variant = "none" THEN <<".">> ELSE <<target.path>>

\* f of main's loop, file_path of the pass.
file_path == IF todo = <<>> THEN <<"f.rs">> ELSE fs[target.path].entries[Head(todo)].rel

\* std::fs::read_to_string and syn::parse_file both succeed on the text.
Parses(text) == text.fmt \in {"raw", "pretty"}

BoundRemovalResult(candidate, outcome) == [candidate |-> candidate, outcome |-> outcome]

\* The exit statuses cargo check can report for the file now on disk.
run_cargo_check(text) ==
  IF verifier.det
  THEN {IF verifier.required \subseteq BoundsOfText(text) THEN "success" ELSE "failure"}
  ELSE {"success", "failure"}

Init ==
  /\ \E inv \in Invocations :
       /\ disk = inv.run.src
       /\ verifier = inv.run.verifier
       /\ target_type = inv.run.target_type
       /\ args = inv.args
       /\ pre_run = inv.run.src
  /\ run = 1
  /\ pc = "start"
  /\ file = <<>>
  /\ items = collect_items_in_file(<<>>)
  /\ queue = <<>>
  /\ kind = "function"
  /\ syntax = <<>>
  /\ original_src = NoText
  /\ working = <<>>
  /\ current_src = NoText
  /\ current_hash = 0
  /\ outcomes = <<>>
  /\ candidates = <<>>
  /\ ci = 1
  /\ removed_any = FALSE
  /\ try_working = <<>>
  /\ modified = FALSE
  /\ updated_src = NoText
  /\ updated_hash = 0
  /\ verified = {}
  /\ verifier_runs = 0
  /\ trial = NoTrial
  /\ removed_bounds = {}
  /\ stats = [writes |-> 0, accepts |-> 0, noops |-> 0]
  /\ last_removed = [named |-> "", actual |-> {}]
  /\ CliIdle

\* main: parse the file and collect its items (prune --brute-force).
MainParse ==
  /\ pc = "start"
  /\ executes(args)
  /\ Parses(disk)
  /\ file' = parse_file(disk)
  /\ items' = collect_items_in_file(parse_file(disk))
  /\ queue' = PassesOf(target_type)
  /\ pc' = "main"
  /\ UNCHANGED <<disk, envVars, pruneVars, passVars, trialVars, verified,
                 verifier_runs, trial, removed_bounds, stats, last_removed>>

\* prune without --brute-force: the target is resolved and, for a crate, the
\* configuration loaded and the files discovered; nothing is parsed.
MainDryRun ==
  /\ pc = "start"
  /\ args.command = "prune"
  /\ ~args.brute_force
  /\ pc' = "done"
  /\ UNCHANGED <<disk, envVars, mainVars, pruneVars, passVars, trialVars, verified,
                 verifier_runs, trial, removed_bounds, stats, last_removed>>

\* prune --brute-force on a single file: a message and exit status 1.
MainRefuseSingleFile ==
  /\ pc = "start"
  /\ args.command = "prune"
  /\ args.brute_force
  /\ args.target = "SingleFile"
  /\ pc' = "refused"
  /\ UNCHANGED <<disk, envVars, mainVars, pruneVars, passVars, trialVars, verified,
                 verifier_runs, trial, removed_bounds, stats, last_removed>>

\* check: every file is parsed and its items collected and reported.
MainCheck ==
  /\ pc = "start"
  /\ args.command = "check"
  /\ Parses(disk)
  /\ file' = parse_file(disk)
  /\ items' = collect_items_in_file(parse_file(disk))
  /\ pc' = "done"
  /\ UNCHANGED <<disk, envVars, queue, pruneVars, passVars, trialVars, verified,
                 verifier_runs, trial, removed_bounds, stats, last_removed>>

\* main calls the next PruneItem::prune_*_bounds with a clone of file; the
\* pass reads the file and sets up its baseline.
PruneCall ==
  /\ pc = "main"
  /\ queue # <<>>
  /\ kind' = Head(queue)
  /\ queue' = Tail(queue)
  /\ syntax' = file
  /\ original_src' = disk
  /\ outcomes' = <<>>
  /\ working' = file
  /\ current_src' = disk
  /\ current_hash' = hash_bytes(disk)
  /\ trial' = NoTrial
  /\ verifier_runs' = 0
  /\ pc' = "loop"
  /\ UNCHANGED <<disk, envVars, file, items, passVars, trialVars, verified,
                 removed_bounds, stats, last_removed>>

\* main: every pass returned Ok.
MainReturn ==
  /\ pc = "main"
  /\ queue = <<>>
  /\ pc' = "done"
  /\ UNCHANGED <<disk, envVars, mainVars, pruneVars, passVars, trialVars, verified,
                 verifier_runs, trial, removed_bounds, stats, last_removed>>

\* while i < bounds.len(): derive the candidates of the head item.
PassBegin ==
  /\ pc = "loop"
  /\ 0 < Len(bounds)
  /\ candidates' = collect_candidates(bounds[1])
  /\ removed_any' = FALSE
  /\ ci' = 1
  /\ pc' = "for"
  /\ UNCHANGED <<disk, envVars, mainVars, pruneVars, trialVars, verified,
                 verifier_runs, trial, removed_bounds, stats, last_removed>>

\* The work list is empty: Ok(outcomes).
PruneReturn ==
  /\ pc = "loop"
  /\ ~(0 < Len(bounds))
  /\ pc' = "main"
  /\ UNCHANGED <<disk, envVars, mainVars, pruneVars, passVars, trialVars, verified,
                 verifier_runs, trial, removed_bounds, stats, last_removed>>

\* try_candidate_once: clone the working tree and run the editor on the copy.
TrialEdit ==
  /\ pc = "for"
  /\ ci <= Len(candidates)
  /\ LET r == visit_file_mut(working, bounds[1].item.ident, bounds[1].item.span, candidates[ci])
     IN /\ try_working' = r.tree
        /\ modified' = r.modified
        /\ trial' = [NoTrial EXCEPT !.begun = trial.begun + 1,
                                    !.before = disk,
                                    !.baseline = current_src,
                                    !.hash_equal =
                                       r.modified /\ hash_bytes(unparse(r.tree)) = current_hash]
  /\ pc' = "edited"
  /\ UNCHANGED <<disk, envVars, mainVars, pruneVars, passVars, updated_src, updated_hash,
                 verified, verifier_runs, removed_bounds, stats, last_removed>>

guard_missing(new_hash, old_hash) == FALSE

\* The no-op guard of try_candidate_once.
is_noop(new_hash, old_hash) == new_hash = old_hash

\* A trial that returns without writing: the editor changed nothing, or the
\* printed text has the baseline's checksum.
TrialSkip ==
  /\ pc = "edited"
  /\ \/ ~modified
     \/ modified /\ is_noop(hash_bytes(unparse(try_working)), current_hash)
  /\ outcomes' = Append(outcomes, BoundRemovalResult(candidates[ci], "Skipped"))
  /\ trial' = [trial EXCEPT !.returned = TRUE]
  /\ stats' = [stats EXCEPT !.noops = IF modified THEN @ + 1 ELSE @]
  /\ ci' = ci + 1
  /\ pc' = "for"
  /\ UNCHANGED <<disk, envVars, mainVars, kind, syntax, original_src, working, current_src,
                 current_hash, candidates, removed_any, trialVars, verified, verifier_runs,
                 removed_bounds, last_removed>>

\* The trial text is written to the target file.
TrialWrite ==
  /\ pc = "edited"
  /\ modified
  /\ ~is_noop(hash_bytes(unparse(try_working)), current_hash)
  /\ updated_src' = unparse(try_working)
  /\ updated_hash' = hash_bytes(unparse(try_working))
  /\ disk' = unparse(try_working)
  /\ trial' = [trial EXCEPT !.written = TRUE]
  /\ stats' = [stats EXCEPT !.writes = @ + 1]
  /\ pc' = "verifying"
  /\ UNCHANGED <<envVars, mainVars, pruneVars, passVars, try_working, modified, verified,
                 verifier_runs, removed_bounds, last_removed>>

outcome_ignoring_status(success) == "Removed"

\* The ledger outcome for the exit status of a verifier that ran.
check_outcome(success) == IF success THEN "Removed" ELSE "Retained"

baseline_not_promoted(new_src, cur_src) == cur_src

\* The text try_candidate_once returns as the baseline of the next trial.
new_baseline(new_src, cur_src) == new_src

tree_not_adopted(tree, target_ident, target_anchor, candidate) == tree

\* What the caller adopts as the working tree after an acceptance.
accepted_tree(tree, target_ident, target_anchor, candidate) ==
  visit_file_mut(tree, target_ident, target_anchor, candidate).tree

\* cargo check succeeded: Removed; the trial becomes the baseline, the pass
\* over the item stops and the same item is processed again.
VerifySuccess ==
  /\ pc = "verifying"
  /\ "success" \in run_cargo_check(disk)
  /\ outcomes' = Append(outcomes, BoundRemovalResult(candidates[ci], check_outcome(TRUE)))
  /\ stats' = [stats EXCEPT !.accepts = @ + 1]
  /\ working' = accepted_tree(working, bounds[1].item.ident, bounds[1].item.span, candidates[ci])
  /\ syntax' = accepted_tree(working, bounds[1].item.ident, bounds[1].item.span, candidates[ci])
  /\ current_src' = new_baseline(updated_src, current_src)
  /\ current_hash' = hash_bytes(new_baseline(updated_src, current_src))
  /\ removed_any' = TRUE
  /\ pc' = "loop"
  /\ verified' = verified \cup {disk}
  /\ verifier_runs' = verifier_runs + 1
  /\ trial' = [trial EXCEPT !.ran = TRUE, !.status = "success", !.returned = TRUE]
  /\ removed_bounds' = removed_bounds \cup (BoundsOfText(current_src) \ BoundsOfText(disk))
  /\ last_removed' = [named |-> candidates[ci].bound,
                      actual |-> BoundsOfText(current_src) \ BoundsOfText(disk)]
  /\ UNCHANGED <<disk, envVars, mainVars, kind, original_src, candidates, ci, trialVars>>

revert_to_original(orig_src, cur_src, tree) == orig_src

revert_by_reprinting(orig_src, cur_src, tree) == unparse(tree)

\* The bytes written back when the verifier rejects the trial.
revert_src(orig_src, cur_src, tree) == cur_src

\* cargo check ran and failed: the file is reverted, Retained, next candidate.
VerifyFailure ==
  /\ pc = "verifying"
  /\ "failure" \in run_cargo_check(disk)
  /\ disk' = revert_src(original_src, current_src, working)
  /\ outcomes' = Append(outcomes, BoundRemovalResult(candidates[ci], check_outcome(FALSE)))
  /\ verifier_runs' = verifier_runs + 1
  /\ trial' = [trial EXCEPT !.ran = TRUE, !.status = "failure", !.returned = TRUE]
  /\ ci' = ci + 1
  /\ pc' = "for"
  /\ UNCHANGED <<envVars, mainVars, kind, syntax, original_src, working, current_src,
                 current_hash, candidates, removed_any, trialVars, verified,
                 removed_bounds, stats, last_removed>>

\* cargo could not be spawned or its output not collected: the error goes up
\* through try_candidate_once, the pass and main.
VerifyError ==
  /\ pc = "verifying"
  /\ trial' = [trial EXCEPT !.status = "error"]
  /\ error' = with_context("running cargo check in", crate_root)
  /\ pc' = "error"
  /\ UNCHANGED <<disk, verifier, target_type, args, run, pre_run, cliVars, mainVars,
                 pruneVars, passVars, trialVars, verified, verifier_runs, removed_bounds,
                 stats, last_removed>>

\* The candidates are exhausted without an acceptance: the item is dropped.
PassEnd ==
  /\ pc = "for"
  /\ ~(ci <= Len(candidates))
  /\ items' = [items EXCEPT ![ItemsField(kind)] = Tail(@)]
  /\ pc' = "loop"
  /\ UNCHANGED <<disk, envVars, file, queue, pruneVars, passVars, trialVars, verified,
                 verifier_runs, trial, removed_bounds, stats, last_removed>>

\* The command is started again on the file the previous run left.
Rerun ==
  /\ pc = "done"
  /\ run < MaxRuns
  /\ run' = run + 1
  /\ pre_run' = disk
  /\ removed_bounds' = {}
  /\ stats' = [writes |-> 0, accepts |-> 0, noops |-> 0]
  /\ trial' = NoTrial
  /\ outcomes' = <<>>
  /\ verifier_runs' = 0
  /\ pc' = "start"
  /\ UNCHANGED <<disk, verifier, target_type, args, mainVars, kind, syntax, original_src, working,
                 current_src, current_hash, passVars, trialVars, verified, last_removed,
                 cliVars, error>>

\* ----------------------------------------------------- main's front end
engineVars ==
  <<mainVars, pruneVars, passVars, trialVars, verified, verifier_runs, trial,
    removed_bounds, stats, last_removed>>

\* main, Commands::Init: the directory is the given path, or its parent when
\* the path is a file; the default configuration is written there.
InitCmd ==
  /\ pc = "cli"
  /\ cmd.command = "init"
  /\ LET given == unwrap_or(cmd.target, ".")
         root == IF fs[given].kind = "file" THEN parent(given) ELSE given
         r == write_default_config_at(fs, root, cmd.force)
     IN /\ fs' = r.tree
        /\ error' = IF r.result.ok THEN error ELSE r.result
        /\ pc' = IF r.result.ok THEN "done" ELSE "error"
  /\ UNCHANGED <<disk, verifier, target_type, args, run, pre_run, cmd, target, cfg,
                 files, todo, engineVars>>

\* main, Commands::Prune and Commands::Check: TargetKind::get_target(target)?
Resolve ==
  /\ pc = "cli"
  /\ cmd.command \in {"prune", "check"}
  /\ LET r == get_target(fs, cmd.target)
     IN IF r.ok
        THEN /\ target' = r.value
             /\ args' = Args(cmd.command, cmd.brute_force,
                             IF r.value.variant = "SingleFile" THEN "SingleFile" ELSE "Crate")
             /\ error' = error
             /\ pc' = "resolved"
        ELSE /\ target' = target
             /\ args' = args
             /\ error' = r
             /\ pc' = "error"
  /\ UNCHANGED <<disk, verifier, target_type, run, pre_run, fs, cmd, cfg, files, todo,
                 engineVars>>

\* The arm for TargetKind::SingleFile: the file is the one the path names.
OpenFile ==
  /\ pc = "resolved"
  /\ target.variant = "SingleFile"
  /\ disk' = fs[target.path].content
  /\ pre_run' = fs[target.path].content
  /\ pc' = "start"
  /\ UNCHANGED <<verifier, target_type, args, run, cliVars, error, engineVars>>

\* The arm for Crate and Workspace: Config::load_or_default(root)?
LoadConfig ==
  /\ pc = "resolved"
  /\ target.variant \in {"Crate", "Workspace"}
  /\ LET r == load_or_default(fs, target.path)
     IN /\ cfg' = IF r.ok THEN r.value ELSE cfg
        /\ error' = IF r.ok THEN error ELSE r
        /\ pc' = IF r.ok THEN "configured" ELSE "error"
  /\ UNCHANGED <<disk, verifier, target_type, args, run, pre_run, fs, cmd, target,
                 files, todo, engineVars>>

\* Discover::discover_rs_files(root, &cfg.include, &cfg.exclude)? and the
\* entry into the loop over files.iter().take(top), which prune runs only
\* with --brute-force.
DiscoverFiles ==
  /\ pc = "configured"
  /\ LET r == discover_rs_files(fs[target.path].entries, cfg.include, cfg.exclude)
         loop == IF executes(args) \/ args.command = "check"
                 THEN take(r.value, top_of(cmd.number_of_items)) ELSE <<>>
     IN IF ~r.ok
        THEN /\ error' = r
             /\ pc' = "error"
             /\ UNCHANGED <<disk, pre_run, files, todo>>
        ELSE /\ error' = error
             /\ files' = r.value
             /\ todo' = loop
             /\ IF loop = <<>>
                THEN /\ pc' = IF args.command = "prune" /\ ~args.brute_force
                              THEN "start" ELSE "done"
                     /\ UNCHANGED <<disk, pre_run>>
                ELSE /\ disk' = fs[target.path].entries[Head(loop)].content
                     /\ pre_run' = fs[target.path].entries[Head(loop)].content
                     /\ pc' = "start"
  /\ UNCHANGED <<verifier, target_type, args, run, fs, cmd, target, cfg, engineVars>>

\* ItemBounds::parse_file(f)? on a file that cannot be read or parsed.
ParseError ==
  /\ pc = "start"
  /\ executes(args) \/ args.command = "check"
  /\ ~Parses(disk)
  /\ error' = Err(IF disk.fmt = "unreadable" THEN "read" ELSE "parse", <<>>)
  /\ pc' = "error"
  /\ UNCHANGED <<disk, verifier, target_type, args, run, pre_run, cliVars, engineVars>>

\* The loop over the files goes on to the next file.
NextFile ==
  /\ pc = "done"
  /\ Len(todo) > 1
  /\ fs' = [fs EXCEPT ![target.path].entries[Head(todo)].content = disk]
  /\ todo' = Tail(todo)
  /\ disk' = fs[target.path].entries[todo[2]].content
  /\ pre_run' = fs[target.path].entries[todo[2]].content
  /\ pc' = "start"
  /\ UNCHANGED <<verifier, target_type, args, run, cmd, target, cfg, files, error,
                 engineVars>>

\* What a failed fs::write can leave in the file: its old bytes, or a part
\* of the new ones.
after_failed_write(old) == {old, Garbage}

\* fs::write of the trial text fails: the error goes up through
\* try_candidate_once, the pass and main.
WriteError ==
  /\ pc = "edited"
  /\ modified
  /\ ~is_noop(hash_bytes(unparse(try_working)), current_hash)
  /\ disk' \in after_failed_write(disk)
  /\ trial' = [trial EXCEPT !.status = "error"]
  /\ error' = with_context("writing updated", file_path)
  /\ pc' = "error"
  /\ UNCHANGED <<verifier, target_type, args, run, pre_run, cliVars, mainVars, pruneVars,
                 passVars, trialVars, verified, verifier_runs, removed_bounds, stats,
                 last_removed>>

\* cargo check ran and failed and the fs::write of the baseline fails.
RevertError ==
  /\ pc = "verifying"
  /\ "failure" \in run_cargo_check(disk)
  /\ disk' \in after_failed_write(disk)
  /\ verifier_runs' = verifier_runs + 1
  /\ trial' = [trial EXCEPT !.ran = TRUE, !.status = "error"]
  /\ error' = with_context("reverting", file_path)
  /\ pc' = "error"
  /\ UNCHANGED <<verifier, target_type, args, run, pre_run, cliVars, mainVars, pruneVars,
                 passVars, trialVars, verified, removed_bounds, stats, last_removed>>

Next ==
  \/ MainParse
  \/ MainDryRun
  \/ MainRefuseSingleFile
  \/ MainCheck
  \/ PruneCall
  \/ MainReturn
  \/ PassBegin
  \/ PruneReturn
  \/ TrialEdit
  \/ TrialSkip
  \/ TrialWrite
  \/ VerifySuccess
  \/ VerifyFailure
  \/ VerifyError
  \/ PassEnd
  \/ Rerun

Spec == Init /\ [][Next]_vars

TypeOK ==
  /\ pc \in {"start", "main", "loop", "for", "edited", "verifying", "done", "error", "refused"}
  /\ run \in 1..MaxRuns
  /\ kind \in Range(PruneOrder)

\* ------------------------------------------------------------- properties
\* No trial is in flight: the program is before, between or after trials.
Quiescent == pc \in {"start", "main", "loop", "for", "done", "error"}

\* The last trial started has just returned to the pass.
TrialReturned == trial.returned /\ pc \in {"for", "loop"}

NonSkipped == {k \in 1..Len(outcomes) : outcomes[k].outcome # "Skipped"}

\* C1  Revert exactness: when a trial that wrote its text and whose verifier
\* ran and failed returns, the file holds the bytes it held before the trial
\* was written, which are the engine's baseline, and the outcome is Retained.
C1_RevertExactness ==
  (TrialReturned /\ trial.written /\ trial.ran /\ trial.status = "failure")
    => /\ disk = trial.before
       /\ disk = trial.baseline
       /\ Last(outcomes).outcome = "Retained"

\* A rejected trial that follows an accepted removal of the same pass.
C1_Witness ==
  /\ TrialReturned /\ trial.written /\ trial.ran /\ trial.status = "failure"
  /\ stats.accepts > 0
  /\ trial.before # original_src

\* C2  Safety invariant: whenever no trial is in flight (before the first
\* trial, between trials, at the end of the run) the file holds the pre-run
\* source or a text the verifier accepted.
C2_SafetyInvariant == Quiescent => (disk = pre_run \/ disk \in verified)

\* C3  Restoration on every exit path: when the verifier cannot be invoked
\* the file is back at the pre-trial bytes before the error propagates, and
\* no returned trial leaves an unaccepted trial text in the file.
C3_RestoredOnEveryExit ==
  /\ pc = "error" => disk = trial.before
  /\ (TrialReturned /\ trial.written /\ trial.status # "success") => disk = trial.before

\* C4  Idempotence: with a deterministic verifier, a second run of prune on
\* the file the first run left records no Removed outcome and ends with the
\* file unchanged.
C4_Idempotence ==
  (run = 2 /\ verifier.det)
    => /\ \A k \in 1..Len(outcomes) : outcomes[k].outcome # "Removed"
       /\ pc = "done" => disk = pre_run

\* C5  Coordinate validity: the bound found in the working tree at the
\* coordinate of the candidate being tried is the bound the candidate is
\* paired with, and a Removed entry names the bound that left the file.
C5_CoordinatesValid ==
  /\ pc = "edited"
       => BoundAtSite(GenericsAt(working, bounds[1].item.span), candidates[ci].site)
            = candidates[ci].bound
  /\ stats.accepts > 0 => last_removed.actual = {last_removed.named}

\* C6  Accepted removals persist: a bound whose removal was accepted in this
\* run is in no text the file holds afterwards.
C6_RemovalsPersist == removed_bounds \cap BoundsOfText(disk) = {}

\* C7  No-op guard: a candidate whose mutated tree prints to a text with the
\* baseline's checksum is Skipped; the file is not written and the verifier
\* is not invoked for it.
C7_NoopGuard ==
  trial.hash_equal
    => /\ ~trial.written
       /\ ~trial.ran
       /\ pc # "verifying"
       /\ disk = trial.before
       /\ TrialReturned => Last(outcomes).outcome = "Skipped"

\* The editor removed a bound and the printed text collides with the baseline.
C7_Witness ==
  /\ TrialReturned
  /\ trial.hash_equal
  /\ modified
  /\ unparse(try_working) # current_src

\* C8  Per-candidate state machine and ledger: the ledger has one entry per
\* returned trial, appended when the trial returns and naming its candidate;
\* Skipped iff the file was not written and the verifier did not run, Removed
\* iff it ran and succeeded, Retained iff it ran and failed, after which the
\* next candidate of the same item follows; verifier invocations equal the
\* non-Skipped entries.
C8_LedgerInv ==
  /\ pc # "error" =>
       /\ Len(outcomes) = (IF trial.returned \/ trial.begun = 0 THEN trial.begun ELSE trial.begun - 1)
       /\ verifier_runs = Cardinality(NonSkipped)
  /\ TrialReturned =>
       /\ Last(outcomes).outcome = "Skipped"
            <=> (~trial.ran /\ ~trial.written /\ (~modified \/ trial.hash_equal))
       /\ Last(outcomes).outcome = "Removed" <=> (trial.ran /\ trial.status = "success")
       /\ Last(outcomes).outcome = "Retained" <=> (trial.ran /\ trial.status = "failure")
       /\ Last(outcomes).outcome \in {"Skipped", "Removed", "Retained"}

C8_LedgerStep ==
  /\ (pc = "for" /\ pc' = "edited") => outcomes' = outcomes
  /\ pc = "edited" => pc' \in {"for", "verifying"}
  /\ (pc = "edited" /\ pc' = "verifying") => outcomes' = outcomes
  /\ (pc = "edited" /\ pc' = "for")
       => outcomes' = Append(outcomes, BoundRemovalResult(candidates[ci], "Skipped"))
  /\ pc = "verifying" => pc' \in {"loop", "for", "error"}
  /\ (pc = "verifying" /\ pc' = "loop")
       => outcomes' = Append(outcomes, BoundRemovalResult(candidates[ci], "Removed"))
  /\ (pc = "verifying" /\ pc' = "for")
       => /\ outcomes' = Append(outcomes, BoundRemovalResult(candidates[ci], "Retained"))
          /\ ci' = ci + 1
          /\ candidates' = candidates
          /\ items' = items
  /\ (pc = "verifying" /\ pc' = "error") => outcomes' = outcomes
  /\ (pc \notin {"edited", "verifying"} /\ outcomes' # outcomes)
       => (pc \in {"main", "done"} /\ outcomes' = <<>>)

C9_BaselineInv ==
  /\ pc = "edited" => (trial.baseline = current_src /\ current_hash = hash_bytes(current_src))
  /\ (pc = "edited" /\ stats.accepts > 0 /\ original_src # current_src)
       => current_src \in verified

C9_AcceptStep ==
  /\ (pc = "verifying" /\ Len(outcomes') > Len(outcomes) /\ Last(outcomes').outcome = "Removed")
       => /\ pc' = "loop"
          /\ items' = items
          /\ current_src' = disk
          /\ current_hash' = hash_bytes(disk)
          /\ removed_any'
  /\ (pc = "loop" /\ removed_any /\ pc' = "for")
       => /\ ci' = 1
          /\ items' = items
  /\ (pc = "for" /\ pc' = "edited") => ~removed_any
  /\ (items' # items /\ pc # "start")
       => /\ pc = "for"
          /\ ci = Len(candidates) + 1
          /\ ~removed_any
          /\ Len(outcomes) >= Len(candidates)
          /\ \A k \in 1..Len(candidates) :
               outcomes[Len(outcomes) - Len(candidates) + k].outcome # "Removed"
          /\ items'[ItemsField(kind)] = Tail(items[ItemsField(kind)])
          /\ \A f \in DOMAIN items : f # ItemsField(kind) => items'[f] = items[f]

C10_NoAcceptNoChange ==
  (pc \in {"main", "done"} /\ stats.accepts = 0) => disk = pre_run

\* The run ended, a re-printed trial text had been written over raw source.
C10_Witness ==
  /\ pc = "done"
  /\ stats.accepts = 0
  /\ stats.writes > 0
  /\ pre_run.fmt = "raw"
  /\ disk = pre_run

\* The run started on a file holding one function with one generic
\* parameter that carries at least one bound, under a verifier that succeeds
\* exactly when every used bound is present.
OneParamCase ==
  /\ verifier.det
  /\ Len(pre_run.decls) = 1
  /\ pre_run.decls[1].kind = "fn"
  /\ Len(pre_run.decls[1].generics.params) = 1
  /\ pre_run.decls[1].generics.params[1].kind = "type"
  /\ pre_run.decls[1].generics.params[1].bounds # <<>>
  /\ ~pre_run.decls[1].generics.where_clause.present

Used(b) == b \in verifier.required

PreRunBounds == pre_run.decls[1].generics.params[1].bounds

\* The prune pass over the function has returned Ok.
PassEnded == pc = "done" \/ (pc = "main" /\ queue = <<>>)

\* The trial text in the file lacks a used bound.
UsedBoundRemoved == pc = "verifying" /\ ~(verifier.required \subseteq BoundsOfText(disk))

C11_EndState ==
  /\ disk.decls[1].generics.params[1].bounds = SelectSeq(PreRunBounds, Used)
  /\ removed_bounds = Range(PreRunBounds) \ verifier.required
  /\ stats.accepts = Cardinality(Range(PreRunBounds) \ verifier.required)
  /\ disk = pre_run \/ disk \in verified

C11_RevertStep ==
  (OneParamCase /\ UsedBoundRemoved /\ pc' # "error")
    => /\ disk' = trial.before
       /\ Last(outcomes').outcome = "Retained"
       /\ removed_bounds' = removed_bounds

\* C11  Exactly the used bounds survive on a single parameter: for a function
\* with one generic parameter carrying n >= 1 bounds and a verifier that
\* succeeds exactly when every used bound is present, the pass ends with the
\* parameter carrying exactly the used bounds in their original order; every
\* unused bound's removal was verified and accepted and every trial that
\* removed a used bound was reverted.
C11_UsedBoundsSurvive ==
  [](OneParamCase /\ PassEnded => C11_EndState) /\ [][C11_RevertStep]_vars

\* C11 amended: the same, provided no candidate of the run was skipped by the
\* no-op guard (its trial text having the baseline's checksum).
C11_UsedBoundsSurviveWithoutNoop ==
  [](OneParamCase /\ PassEnded /\ stats.noops = 0 => C11_EndState)
    /\ [][C11_RevertStep]_vars

\* Three bounds of which only the middle one is used: both unused bounds were
\* removed, a trial that removed the used bound was reverted, the pass ended.
C11_Witness ==
  /\ OneParamCase /\ PassEnded /\ stats.noops = 0
  /\ run = 1
  /\ PreRunBounds = <<"A", "B", "C">>
  /\ verifier.required = {"B"}
  /\ disk.decls[1].generics.params[1].bounds = <<"B">>
  /\ stats.accepts = 2
  /\ stats.writes > stats.accepts

\* ------------------------------------------- editor and extraction alone
\* The second specification applies the extraction, the candidate generator
\* and the editor to generics, candidates and targets drawn from bounded
\* sets: a pass under a verifier that rejects every trial tries every
\* candidate against the unmodified tree.
ConstParam(ident) == [kind |-> "const", ident |-> ident, colon |-> FALSE, bounds |-> <<>>]

PoolAt(i) == BoundPool[((i - 1) % Len(BoundPool)) + 1]

\* Parameter lists of up to two parameters: a lifetime, a const or a type
\* parameter with 0..MaxBounds bounds at each position.
ParamChoices(k) ==
  {LifetimeParam("'a"), ConstParam("N")}
  \cup {TypeParam(TyNames[k], [j \in 1..n |-> PoolAt(4 * (k - 1) + j)]) : n \in 0..MaxBounds}

ParamLists ==
  {<<>>} \cup {<<p>> : p \in ParamChoices(1)}
  \cup {<<p, q>> : p \in ParamChoices(1), q \in ParamChoices(2)}

\* Where-clauses of up to MaxPreds predicates: a lifetime predicate or a type
\* predicate with 0..2 bounds at each position; also no clause at all.
PredChoices(k) ==
  {PredicateLifetime("'a")}
  \cup {PredicateType(TyNames[k], [j \in 1..n |-> PoolAt(2 * k + j)]) : n \in 0..2}

PredLists ==
  UNION {{ps \in [1..n -> UNION {PredChoices(k) : k \in 1..n}] :
            \A k \in 1..n : ps[k] \in PredChoices(k)} : n \in 0..MaxPreds}

WhereChoices == {None} \cup {Some(ps) : ps \in PredLists}

TpGenerics ==
  {Generics(ps, wc) :
     ps \in ParamLists,
     wc \in {None, Some(<<>>), Some(<<PredicateType("T", <<"W">>)>>),
             Some(<<PredicateLifetime("'a"), PredicateType("U", <<"W", "X">>)>>)}}

WhGenerics ==
  {Generics(ps, wc) :
     ps \in {<<>>, <<TypeParam("T", <<"A">>)>>, <<LifetimeParam("'a"), TypeParam("T", <<>>)>>},
     wc \in WhereChoices}

\* Candidates with arbitrary coordinates, in and out of range.
TpSite(p, b) ==
  [site |-> [tag |-> "TypeParam", ident |-> "T", param_index |-> p, bound_index |-> b],
   bound |-> "?"]

WhSite(q, b) ==
  [site |-> [tag |-> "WhereClause", ty |-> "T", pred_index |-> q, bound_index |-> b],
   bound |-> "?"]

TpSites == {TpSite(p, b) : p \in 0..2, b \in 0..MaxBounds}

WhSites == {WhSite(q, b) : q \in 0..MaxPreds, b \in 0..2}

\* fn f<generics>() {}
OneFnSrc(g) == [fmt |-> "raw", decls |-> <<Decl("fn", "f", 0, g)>>]

\* Declarations that share the name f, at top level, in a module, in a
\* function body, in an impl block and in a trait.
NestedSrc ==
  [fmt |-> "raw",
   decls |-> <<Decl("mod", "m", 0, Generics(<<>>, None)),
               Decl("fn", "f", 1, Generics(<<TypeParam("T", <<"A", "B">>)>>, None)),
               Decl("fn", "f", 2, Generics(<<TypeParam("T", <<"C">>)>>, None)),
               Decl("impl", "", 0, Generics(<<TypeParam("U", <<"D">>)>>, None)),
               Decl("impl_fn", "f", 4, Generics(<<TypeParam("V", <<"E">>)>>, None)),
               Decl("trait", "Tr", 0,
                    Generics(<<TypeParam("W", <<>>)>>, Some(<<PredicateType("W", <<"F">>)>>))),
               Decl("trait_fn", "f", 6, Generics(<<TypeParam("X", <<"G">>)>>, None)),
               Decl("struct", "f", 0, Generics(<<TypeParam("Y", <<"H">>)>>, None))>>]

ItemKey(ident, span) == [ident |-> ident, span |-> span]

SomeIdent(name) == [some |-> TRUE, name |-> name]

NoIdent == [some |-> FALSE, name |-> ""]

\* An editor call: the tree of a source, the key of the target and a candidate.
EditCall(src, key, candidate) == [src |-> src, key |-> key, candidate |-> candidate]

EditCalls ==
  {EditCall(OneFnSrc(g), ItemKey(SomeIdent("f"), SpanOf(OneFnSrc(g), 1)), c) :
     g \in TpGenerics, c \in TpSites}
  \cup {EditCall(OneFnSrc(g), ItemKey(SomeIdent("f"), SpanOf(OneFnSrc(g), 1)), c) :
          g \in WhGenerics, c \in WhSites}
  \cup {EditCall(NestedSrc, ItemKey(id, sp), c) :
          id \in {NoIdent, SomeIdent("f"), SomeIdent("Tr"), SomeIdent("zz")},
          sp \in {0} \cup {SpanOf(NestedSrc, k) : k \in 1..Len(NestedSrc.decls)},
          c \in {TpSite(0, b) : b \in 0..MaxBounds} \cup {WhSite(0, 0)}}

\* A verifier that rejects every trial.
RejectAll == DetVerifier({"!"})

DeclKindOf(tt) ==
  CASE tt = "function" -> "fn" [] tt = "impl" -> "impl" [] tt = "trait" -> "trait"
    [] tt = "trait_method" -> "trait_fn" [] tt = "impl_method" -> "impl_fn"
    [] tt = "enum" -> "enum" [] tt = "struct" -> "struct"

\* One declaration of the kind a target type selects.
OneDeclSrc(tt, g) ==
  [fmt |-> "raw",
   decls |-> <<Decl(DeclKindOf(tt), IF tt = "impl" THEN "" ELSE "f", 0, g)>>]

SmallGenerics ==
  {Generics(<<>>, None),
   Generics(<<TypeParam("T", <<>>)>>, None),
   Generics(<<TypeParam("T", <<"A">>)>>, None),
   Generics(<<LifetimeParam("'a"), TypeParam("T", <<"A", "B">>)>>, None),
   Generics(<<TypeParam("T", <<>>)>>, Some(<<PredicateType("T", <<"C">>)>>)),
   Generics(<<LifetimeParam("'a")>>, Some(<<PredicateLifetime("'a")>>))}

\* A trait or impl block with a method m and a method n without generics.
OwnerSrc(tt, go, gm) ==
  [fmt |-> "raw",
   decls |-> <<Decl(DeclKindOf(tt), IF tt = "impl" THEN "" ELSE "Tr", 0, go),
               Decl(DeclKindOf(tt) \o "_fn", "m", 1, gm),
               Decl(DeclKindOf(tt) \o "_fn", "n", 1, Generics(<<>>, None))>>]

ExtractRuns ==
  {Run(OneDeclSrc(tt, g), RejectAll, tt) :
     tt \in {"function", "impl", "trait", "enum", "struct"}, g \in TpGenerics \cup WhGenerics}
  \cup UNION {{Run(OwnerSrc(tt, go, gm), RejectAll, t2) :
                 go \in SmallGenerics, gm \in SmallGenerics, t2 \in {tt, tt \o "_method"}} :
                tt \in {"trait", "impl"}}
  \cup {Run(NestedSrc, RejectAll, tt) : tt \in Range(PruneOrder)}

EditInit ==
  /\ run = 1
  /\ CliIdle
  /\ args = BruteForcePrune
  /\ queue = <<>>
  /\ outcomes = <<>>
  /\ try_working = <<>>
  /\ modified = FALSE
  /\ updated_src = NoText
  /\ updated_hash = 0
  /\ verified = {}
  /\ verifier_runs = 0
  /\ trial = NoTrial
  /\ removed_bounds = {}
  /\ stats = [writes |-> 0, accepts |-> 0, noops |-> 0]
  /\ last_removed = [named |-> "", actual |-> {}]
  /\ removed_any = FALSE
  /\ ci = 1
  /\ \/ \E call \in EditCalls :
          /\ pc = "for"
          /\ disk = call.src
          /\ pre_run = call.src
          /\ verifier = RejectAll
          /\ target_type = "function"
          /\ kind = "function"
          /\ file = parse_file(call.src)
          /\ syntax = parse_file(call.src)
          /\ working = parse_file(call.src)
          /\ original_src = call.src
          /\ current_src = call.src
          /\ current_hash = hash_bytes(call.src)
          /\ items = [collect_items_in_file(<<>>) EXCEPT
                        !.fns = <<[item |-> call.key, type_params |-> <<>>, where_preds |-> <<>>]>>]
          /\ candidates = <<call.candidate>>
     \/ \E inp \in ExtractRuns :
          /\ pc = "start"
          /\ disk = inp.src
          /\ pre_run = inp.src
          /\ verifier = inp.verifier
          /\ target_type = inp.target_type
          /\ kind = "function"
          /\ file = <<>>
          /\ syntax = <<>>
          /\ working = <<>>
          /\ original_src = NoText
          /\ current_src = NoText
          /\ current_hash = 0
          /\ items = collect_items_in_file(<<>>)
          /\ candidates = <<>>

EditNext ==
  \/ MainParse
  \/ PruneCall
  \/ PassBegin
  \/ TrialEdit
  \/ TrialWrite
  \/ VerifyFailure

EditSpec == EditInit /\ [][EditNext]_vars

\* The editor has just run on a one-declaration tree whose declaration is the
\* target.
CandSite == candidates[ci].site

EditedOneDecl ==
  /\ pc = "edited"
  /\ Len(working) = 1
  /\ working[1].kind = "fn"
  /\ working[1].anchor = bounds[1].item.span
  /\ bounds[1].item.ident = SomeIdent(working[1].ident)

OldGenerics == working[1].generics

NewGenerics == try_working[1].generics

TpSiteInRange ==
  /\ CandSite.tag = "TypeParam"
  /\ CandSite.param_index < Len(OldGenerics.params)
  /\ OldGenerics.params[CandSite.param_index + 1].kind = "type"
  /\ CandSite.bound_index < Len(OldGenerics.params[CandSite.param_index + 1].bounds)

\* C12  Coordinate correctness of a type-parameter removal: applying a
\* TypeParam site (param_index = k, bound_index = j) with j in range leaves the
\* bounds before j on parameter k unchanged and in order, removes exactly the
\* bound at j, moves each bound after j down by one position, and leaves every
\* other parameter and the whole where-clause unchanged.
C12_TypeParamRemoval ==
  (EditedOneDecl /\ TpSiteInRange)
    => LET k == CandSite.param_index + 1
           j == CandSite.bound_index
           ob == OldGenerics.params[k].bounds
           nb == NewGenerics.params[k].bounds
       IN /\ modified
          /\ Len(nb) = Len(ob) - 1
          /\ \A i \in 1..j : nb[i] = ob[i]
          /\ \A i \in (j + 1)..Len(nb) : nb[i] = ob[i + 1]
          /\ Len(NewGenerics.params) = Len(OldGenerics.params)
          /\ NewGenerics.params[k].kind = "type"
          /\ NewGenerics.params[k].ident = OldGenerics.params[k].ident
          /\ \A p \in 1..Len(OldGenerics.params) :
               p # k => NewGenerics.params[p] = OldGenerics.params[p]
          /\ NewGenerics.where_clause = OldGenerics.where_clause

\* The middle one of three bounds of the second parameter is removed while the
\* first parameter has bounds and a where-clause is present.
C12_Witness ==
  /\ EditedOneDecl /\ TpSiteInRange /\ modified
  /\ CandSite.param_index = 1
  /\ CandSite.bound_index = 1
  /\ Len(OldGenerics.params[2].bounds) = 3
  /\ OldGenerics.params[1].bounds # <<>>
  /\ OldGenerics.where_clause.predicates # <<>>

WhSiteInRange ==
  /\ CandSite.tag = "WhereClause"
  /\ OldGenerics.where_clause.present
  /\ CandSite.pred_index < Len(OldGenerics.where_clause.predicates)
  /\ OldGenerics.where_clause.predicates[CandSite.pred_index + 1].kind = "type"
  /\ CandSite.bound_index
       < Len(OldGenerics.where_clause.predicates[CandSite.pred_index + 1].bounds)

\* The list without its element at 0-based position idx.
Without(list, idx) ==
  SubSeq(list, 1, idx) \o SubSeq(list, idx + 2, Len(list))

C13_TypeParamCollapse ==
  (EditedOneDecl /\ TpSiteInRange)
    => LET k == CandSite.param_index + 1
           old == OldGenerics.params[k]
           new == NewGenerics.params[k]
       IN /\ modified
          /\ Len(NewGenerics.params) = Len(OldGenerics.params)
          /\ new.kind = "type" /\ new.ident = old.ident
          /\ new.bounds = Without(old.bounds, CandSite.bound_index)
          /\ new.bounds = <<>> => ~new.colon
          /\ new.bounds # <<>> => new.colon = old.colon

C13_WhereCollapse ==
  (EditedOneDecl /\ WhSiteInRange)
    => LET q == CandSite.pred_index + 1
           ops == OldGenerics.where_clause.predicates
           nps == NewGenerics.where_clause.predicates
           rest == Without(ops[q].bounds, CandSite.bound_index)
       IN /\ modified
          /\ NewGenerics.params = OldGenerics.params
          /\ rest # <<>>
               => /\ NewGenerics.where_clause.present
                  /\ nps = [ops EXCEPT ![q].bounds = rest]
          /\ (rest = <<>> /\ Len(ops) > 1)
               => /\ NewGenerics.where_clause.present
                  /\ nps = Without(ops, CandSite.pred_index)
          /\ (rest = <<>> /\ Len(ops) = 1)
               => NewGenerics.where_clause = None

\* C13  Collapse of emptied syntax: removing the last bound of a type
\* parameter drops its colon and keeps the parameter; removing a where bound
\* removes only that bound when the predicate keeps other bounds; removing the
\* last bound of a predicate removes exactly that predicate, the others keep
\* their order; removing the last predicate removes the where-clause.  Colon,
\* predicate and clause stay while bounds or predicates remain.
C13_Collapse == C13_TypeParamCollapse /\ C13_WhereCollapse

\* The only bound of the first of two predicates is removed: the predicate
\* goes, the second predicate with its bounds stays, as does the clause.
C13_Witness ==
  /\ EditedOneDecl /\ WhSiteInRange /\ modified
  /\ CandSite.pred_index = 0
  /\ Len(OldGenerics.where_clause.predicates) = 2
  /\ Len(OldGenerics.where_clause.predicates[1].bounds) = 1
  /\ OldGenerics.where_clause.predicates[2].kind = "type"
  /\ Len(OldGenerics.where_clause.predicates[2].bounds) = 2
  /\ NewGenerics.where_clause.predicates = <<OldGenerics.where_clause.predicates[2]>>

\* A coordinate designates a bound of the generics.
SiteInRange(g, site) ==
  IF site.tag = "TypeParam"
  THEN /\ site.param_index < Len(g.params)
       /\ g.params[site.param_index + 1].kind = "type"
       /\ site.bound_index < Len(g.params[site.param_index + 1].bounds)
  ELSE /\ g.where_clause.present
       /\ site.pred_index < Len(g.where_clause.predicates)
       /\ g.where_clause.predicates[site.pred_index + 1].kind = "type"
       /\ site.bound_index < Len(g.where_clause.predicates[site.pred_index + 1].bounds)

\* The declaration lies in the body of a function or method.
RECURSIVE InsideBody(_, _)
InsideBody(tree, k) ==
  /\ tree[k].parent # 0
  /\ \/ tree[tree[k].parent].kind \in {"fn", "impl_fn", "trait_fn"}
     \/ InsideBody(tree, tree[k].parent)

\* The declarations a traversal can take for the target: outside every body,
\* bearing the target's anchor and, unless they are impl blocks or no name is
\* wanted, the wanted name.
Targets(tree, key) ==
  {k \in 1..Len(tree) :
     /\ tree[k].kind # "mod"
     /\ ~InsideBody(tree, k)
     /\ tree[k].anchor = key.span
     /\ tree[k].kind = "impl" \/ ~key.ident.some \/ key.ident.name = tree[k].ident}

EditFails ==
  \A k \in Targets(working, bounds[1].item) : ~SiteInRange(working[k].generics, CandSite)

\* C14  Failed edits are total no-ops: when no node matches the target anchor
\* and name, or the matched node has no parameter at param_index, a non-type
\* parameter there, no where-clause, no predicate at pred_index, a predicate
\* that is not type-shaped, or bound_index is out of range, the editor reports
\* not modified and the tree copy equals the tree before the traversal.
C14_FailedEditNoop ==
  /\ (pc = "edited" /\ EditFails) => (~modified /\ try_working = working)
  /\ (pc = "edited" /\ ~modified) => try_working = working

\* A where coordinate that designates a type predicate without bounds.
C14_Witness ==
  /\ EditedOneDecl /\ EditFails /\ ~modified
  /\ CandSite.tag = "WhereClause"
  /\ CandSite.pred_index < Len(OldGenerics.where_clause.predicates)
  /\ OldGenerics.where_clause.predicates[CandSite.pred_index + 1].kind = "type"
  /\ OldGenerics.where_clause.predicates[CandSite.pred_index + 1].bounds = <<>>
  /\ try_working = working

\* The number of bounds a generics list carries.
BoundCount(g) ==
  SumSeq([k \in 1..Len(g.params) |-> Len(g.params[k].bounds)])
  + SumSeq([k \in 1..Len(g.where_clause.predicates) |->
              Len(g.where_clause.predicates[k].bounds)])

\* The nodes on which the tree copy differs from the tree before the traversal.
ChangedNodes == {k \in 1..Len(working) : try_working[k] # working[k]}

Min(S) == CHOOSE x \in S : \A y \in S : x <= y

\* C15  Single-node, single-bound edit: one traversal removes at most one
\* bound from at most one declaration; the mutated node is the first node in
\* traversal order that bears the target anchor and, when both names exist,
\* the target name (impl blocks match by anchor alone); every other node,
\* before and after it, is unchanged.
C15_SingleEdit ==
  pc = "edited"
    => /\ Len(try_working) = Len(working)
       /\ Cardinality(ChangedNodes) <= 1
       /\ ~modified => ChangedNodes = {}
       /\ modified
            => /\ Targets(working, bounds[1].item) # {}
               /\ ChangedNodes = {Min(Targets(working, bounds[1].item))}
               /\ \A k \in ChangedNodes :
                    /\ BoundCount(try_working[k].generics) = BoundCount(working[k].generics) - 1
                    /\ [try_working[k] EXCEPT !.generics = working[k].generics] = working[k]

\* An impl block is edited through its anchor although a name is wanted; a
\* function, a method and a struct named f around it stay as they were.
C15_Witness ==
  /\ pc = "edited" /\ modified
  /\ Len(working) = Len(NestedSrc.decls)
  /\ bounds[1].item.ident = SomeIdent("f")
  /\ ChangedNodes = {4}
  /\ working[4].kind = "impl"
  /\ BoundsOfTree(working) \ BoundsOfTree(try_working) = {"D"}

\* The positions of a candidate list that lie on the type parameter, or on
\* the where predicate, of a record.
OnParam(cands, tp) ==
  {i \in 1..Len(cands) :
     cands[i].site.tag = "TypeParam" /\ cands[i].site.param_index = tp.param_index}

OnPred(cands, wb) ==
  {i \in 1..Len(cands) :
     cands[i].site.tag = "WhereClause" /\ cands[i].site.pred_index = wb.pred_index}

\* Position i comes before position j in the order the claim prescribes.
SiteBefore(a, b) ==
  \/ a.tag = "TypeParam" /\ b.tag = "WhereClause"
  \/ /\ a.tag = "TypeParam" /\ b.tag = "TypeParam"
     /\ \/ a.param_index < b.param_index
        \/ a.param_index = b.param_index /\ a.bound_index < b.bound_index
  \/ /\ a.tag = "WhereClause" /\ b.tag = "WhereClause"
     /\ \/ a.pred_index < b.pred_index
        \/ a.pred_index = b.pred_index /\ a.bound_index < b.bound_index

CandidateListing(cands, rec) ==
  /\ Len(cands) = SumSeq([k \in 1..Len(rec.type_params) |-> Len(rec.type_params[k].bounds)])
                  + SumSeq([k \in 1..Len(rec.where_preds) |-> Len(rec.where_preds[k].bounds)])
  /\ \A i, j \in 1..Len(cands) : i < j => SiteBefore(cands[i].site, cands[j].site)
  /\ \A k \in 1..Len(rec.type_params) :
       LET tp == rec.type_params[k] IN
       /\ {cands[i].site.bound_index : i \in OnParam(cands, tp)} = 0..(Len(tp.bounds) - 1)
       /\ \A i \in OnParam(cands, tp) :
            /\ cands[i].bound = tp.bounds[cands[i].site.bound_index + 1]
            /\ cands[i].site.ident = tp.ident
  /\ \A k \in 1..Len(rec.where_preds) :
       LET wb == rec.where_preds[k] IN
       /\ {cands[i].site.bound_index : i \in OnPred(cands, wb)} = 0..(Len(wb.bounds) - 1)
       /\ \A i \in OnPred(cands, wb) :
            /\ cands[i].bound = wb.bounds[cands[i].site.bound_index + 1]
            /\ cands[i].site.ty = wb.ty
  /\ \A i \in 1..Len(cands) :
       \/ \E k \in 1..Len(rec.type_params) : i \in OnParam(cands, rec.type_params[k])
       \/ \E k \in 1..Len(rec.where_preds) : i \in OnPred(cands, rec.where_preds[k])

C16_Step == (pc = "loop" /\ pc' = "for") => CandidateListing(candidates', bounds[1])

\* C16  Candidate order and completeness: the candidate list generated for an
\* item has exactly one candidate per bound recorded for the item, all
\* type-parameter candidates before all where-clause candidates, parameters
\* and predicates by ascending index, bound_index ascending from 0 without
\* gaps, and each candidate carries the bound recorded at its coordinate.
C16_CandidateOrder == [][C16_Step]_vars

\* The list generated for a record with bounds on its second parameter and on
\* its second predicate.
C16_Witness ==
  /\ pc = "for" /\ ci = 1 /\ trial.begun = 0
  /\ Len(bounds[1].type_params) = 1
  /\ bounds[1].type_params[1].param_index = 1
  /\ Len(bounds[1].type_params[1].bounds) = 3
  /\ Len(bounds[1].where_preds) = 1
  /\ bounds[1].where_preds[1].pred_index = 1
  /\ Len(candidates) = 5
  /\ candidates[5].site.tag = "WhereClause"
  /\ candidates[5].site.bound_index = 1

\* What extraction has to record for a generics list: the type parameters
\* and type predicates that carry a bound, in source order, indexed over all
\* parameters and all predicates.
ExtractionOf(g, tps, wps) ==
  /\ \A i, j \in 1..Len(tps) : i < j => tps[i].param_index < tps[j].param_index
  /\ {tps[i].param_index : i \in 1..Len(tps)}
       = {p - 1 : p \in {p \in 1..Len(g.params) :
                           g.params[p].kind = "type" /\ g.params[p].bounds # <<>>}}
  /\ \A i \in 1..Len(tps) :
       /\ tps[i].ident = g.params[tps[i].param_index + 1].ident
       /\ tps[i].bounds = g.params[tps[i].param_index + 1].bounds
  /\ \A i, j \in 1..Len(wps) : i < j => wps[i].pred_index < wps[j].pred_index
  /\ {wps[i].pred_index : i \in 1..Len(wps)}
       = {q - 1 : q \in {q \in 1..Len(g.where_clause.predicates) :
                           /\ g.where_clause.predicates[q].kind = "type"
                           /\ g.where_clause.predicates[q].bounds # <<>>}}
  /\ \A i \in 1..Len(wps) :
       /\ wps[i].ty = g.where_clause.predicates[wps[i].pred_index + 1].ty
       /\ wps[i].bounds = g.where_clause.predicates[wps[i].pred_index + 1].bounds

AllRecords(its) ==
  its.fns \o its.traits \o its.impls \o its.trait_methods \o its.impl_methods
    \o its.enums \o its.structs

C17_ExtractStep ==
  (pc = "start" /\ pc' = "main")
    => \A i \in 1..Len(AllRecords(items')) :
         LET rec == AllRecords(items')[i] IN
         /\ \E k \in 1..Len(file') : file'[k].anchor = rec.item.span
         /\ ExtractionOf(GenericsAt(file', rec.item.span), rec.type_params, rec.where_preds)

\* All bounds of a generics list in source order, and the 0-based position of
\* a coordinate in that order.
AllBounds(g) ==
  Flatten([k \in 1..Len(g.params) |-> g.params[k].bounds])
  \o Flatten([k \in 1..Len(g.where_clause.predicates) |-> g.where_clause.predicates[k].bounds])

FlatPos(g, site) ==
  IF site.tag = "TypeParam"
  THEN SumSeq([k \in 1..site.param_index |-> Len(g.params[k].bounds)]) + site.bound_index
  ELSE SumSeq([k \in 1..Len(g.params) |-> Len(g.params[k].bounds)])
       + SumSeq([k \in 1..site.pred_index |-> Len(g.where_clause.predicates[k].bounds)])
       + site.bound_index

\* The candidates in hand were generated from the record of the item.
FromExtraction == bounds[1].type_params # <<>> \/ bounds[1].where_preds # <<>>

C17_ApplyInv ==
  (pc = "edited" /\ FromExtraction /\ working = file)
    => LET old == GenericsAt(working, bounds[1].item.span)
           new == GenericsAt(try_working, bounds[1].item.span)
       IN /\ modified
          /\ SiteInRange(old, CandSite)
          /\ BoundAtSite(old, CandSite) = candidates[ci].bound
          /\ AllBounds(old)[FlatPos(old, CandSite) + 1] = candidates[ci].bound
          /\ AllBounds(new) = Without(AllBounds(old), FlatPos(old, CandSite))

\* C17  Extract/apply agreement: extraction records, in source order, exactly
\* the type parameters and type-shaped where predicates with at least one
\* bound, param_index and pred_index counted over all parameters and all
\* predicates; every candidate of a fresh extraction, applied to an unmodified
\* copy of the same generics, removes exactly the bound it is paired with.
C17_ExtractApply == [](C17_ApplyInv) /\ [][C17_ExtractStep]_vars

\* A later candidate applied to the unmodified tree: a where bound behind a
\* lifetime predicate, in generics whose first parameter is a const parameter.
C17_Witness ==
  /\ pc = "edited" /\ FromExtraction /\ working = file /\ modified
  /\ ci >= 2
  /\ Len(working) = 1
  /\ working[1].generics.params # <<>>
  /\ working[1].generics.params[1].kind = "const"
  /\ CandSite.tag = "WhereClause"
  /\ CandSite.pred_index = 1
  /\ working[1].generics.where_clause.predicates[1].kind = "lifetime"

\* The generics carry a bound of a type parameter or of a type predicate.
HasBound(g) ==
  \/ \E p \in 1..Len(g.params) : g.params[p].kind = "type" /\ g.params[p].bounds # <<>>
  \/ \E q \in 1..Len(g.where_clause.predicates) :
       /\ g.where_clause.predicates[q].kind = "type"
       /\ g.where_clause.predicates[q].bounds # <<>>

FieldOfDecl(k) ==
  CASE k = "fn" -> "fns" [] k = "impl" -> "impls" [] k = "trait" -> "traits"
    [] k = "trait_fn" -> "trait_methods" [] k = "impl_fn" -> "impl_methods"
    [] k = "enum" -> "enums" [] k = "struct" -> "structs"

RecordsOf(its, node) ==
  {i \in 1..Len(its[FieldOfDecl(node.kind)]) :
     its[FieldOfDecl(node.kind)][i].item.span = node.anchor}

C18_Step ==
  (pc = "start" /\ pc' = "main")
    => /\ \A k \in 1..Len(file') :
            file'[k].kind # "mod"
              => /\ Cardinality(RecordsOf(items', file'[k]))
                      = (IF HasBound(file'[k].generics) THEN 1 ELSE 0)
                 /\ \A i \in RecordsOf(items', file'[k]) :
                      LET rec == items'[FieldOfDecl(file'[k].kind)][i] IN
                      /\ ExtractionOf(file'[k].generics, rec.type_params, rec.where_preds)
                      /\ rec.item.ident = (IF file'[k].kind = "impl"
                                           THEN NoIdent
                                           ELSE SomeIdent(file'[k].ident))
       /\ \A f \in DOMAIN items' :
            Len(items'[f])
              = Cardinality({k \in 1..Len(file') :
                               /\ file'[k].kind # "mod"
                               /\ FieldOfDecl(file'[k].kind) = f
                               /\ HasBound(file'[k].generics)})

\* C18  Extraction is per declaration and bound-driven: a function, struct,
\* enum, trait, impl block, trait method or impl method yields a record iff
\* its own generics carry a type-parameter bound or a type-shaped where bound;
\* the record of a method is that of its own signature and the record of a
\* trait or impl block that of its own generics; a declaration without
\* generics yields nothing.
C18_PerDeclaration == [][C18_Step]_vars

\* A trait with an unbounded parameter that holds a method with a where bound
\* and a method without generics: one record, the method's.
C18_Witness ==
  /\ pc = "main"
  /\ Len(file) = 3
  /\ file[1].kind = "trait"
  /\ file[1].generics.params # <<>>
  /\ ~HasBound(file[1].generics)
  /\ file[3].generics = Generics(<<>>, None)
  /\ items.traits = <<>>
  /\ Len(items.trait_methods) = 1
  /\ items.trait_methods[1].item.span = file[2].anchor
  /\ items.trait_methods[1].type_params = <<>>
  /\ items.trait_methods[1].where_preds # <<>>

\* The command was started in a mode that is not to execute anything.
NonExecuting == args.command = "check" \/ ~args.brute_force

\* C19  Non-executing modes never mutate: the check command, and prune
\* without --brute-force, write no source file and invoke the verifier zero
\* times, for every target; the file's bytes stay those it had before.
C19_NonExecuting ==
  NonExecuting
    => /\ disk = pre_run
       /\ stats.writes = 0
       /\ stats.accepts = 0
       /\ verifier_runs = 0
       /\ verified = {}
       /\ pc \in {"start", "done"}

\* check has parsed a crate's file with bounds of every kind, twice.
C19_Witness ==
  /\ NonExecuting
  /\ args.command = "check"
  /\ args.target = "Crate"
  /\ pc = "done"
  /\ run = 2
  /\ Len(file) = Len(AllKindsSrc.decls)
  /\ items.fns # <<>>
  /\ disk = AllKindsSrc

\* A declaration of the file the run started on that does not lie in a body.
Prunable(text, k) ==
  /\ text.decls[k].kind # "mod"
  /\ ~InsideBody(parse_file(text), k)

\* One item kind is selected: the declarations of every other kind keep
\* their generics, in every text the file holds during and after the run.
C20_FrameInv ==
  (executes(args) /\ target_type # "all")
    => /\ Len(disk.decls) = Len(pre_run.decls)
       /\ \A k \in 1..Len(pre_run.decls) :
            pre_run.decls[k].kind # DeclKindOf(target_type)
              => /\ disk.decls[k].kind = pre_run.decls[k].kind
                 /\ PrintGenerics(disk.decls[k].generics)
                      = PrintGenerics(pre_run.decls[k].generics)
       /\ pc \in {"edited", "verifying"}
            => /\ kind = target_type
               /\ \E k \in 1..Len(working) :
                    /\ working[k].anchor = bounds[1].item.span
                    /\ working[k].kind = DeclKindOf(target_type)
               /\ \A k \in ChangedNodes : working[k].kind = DeclKindOf(target_type)

\* All kinds are selected: the seven pruners are called in main's order, and
\* under a deterministic verifier every declaration with an unused bound has
\* had a removal accepted when the run ends.
C20_AllInv ==
  (executes(args) /\ target_type = "all")
    => /\ pc = "main" => \E n \in 0..Len(PruneOrder) :
                           queue = SubSeq(PruneOrder, n + 1, Len(PruneOrder))
       /\ (pc = "done" /\ verifier.det)
            => \A k \in 1..Len(pre_run.decls) :
                 (Prunable(pre_run, k)
                    /\ BoundsOfGenerics(pre_run.decls[k].generics) \ verifier.required # {})
                   => removed_bounds \cap BoundsOfGenerics(pre_run.decls[k].generics) # {}

C20_Step ==
  /\ (pc = "main" /\ pc' = "loop") => (kind' = Head(queue) /\ queue' = Tail(queue))
  /\ (pc = "main" /\ pc' = "done") => queue = <<>>
  /\ (pc = "start" /\ pc' = "main")
       => queue' = (IF target_type = "all" THEN PruneOrder ELSE <<target_type>>)

\* C20  Item-kind selection is a frame: with one selected kind only
\* coordinates of items of that kind are trialled and the bounds of the
\* declarations of every other kind are the same after the run as before;
\* with the selection all, every one of the seven kinds is processed.
C20_KindSelection == [](C20_FrameInv /\ C20_AllInv) /\ [][C20_Step]_vars

\* Only impl methods were selected in a file with a bound on a declaration of
\* every kind: the method's bound has gone, all others are in the file.
C20_Witness ==
  /\ executes(args)
  /\ target_type = "impl_method"
  /\ pc = "done" /\ run = 1
  /\ pre_run = AllKindsSrc
  /\ removed_bounds = {"C"}
  /\ BoundsOfText(disk) = BoundsOfText(AllKindsSrc) \ {"C"}

\* -------------------------------------------------- the command as a whole
\* A specification that starts from a command line and a file system: main
\* resolves the target, loads the configuration, discovers the files and
\* processes them, and writes can fail.
NoBoundsSrc == [fmt |-> "raw", decls |-> <<Decl("fn", "f", 0, Generics(<<>>, None))>>]

Manifests ==
  {NoFile, BadFile, TextFile(<<>>), TextFile(<<"[package]">>), TextFile(<<"[workspace]">>),
   TextFile(<<"[package]", "[workspace]">>)}

Missing == Node("missing", "", NoFile, NoFile, <<>>, NoText)

RegularFile(ext, content) == Node("file", ext, NoFile, NoFile, <<>>, content)

Directory(manifest, config, entries) == Node("dir", "", manifest, config, entries, NoText)

\* What the path p can be when a target is resolved.
ResolutionNodes ==
  {Missing, Node("other", "", NoFile, NoFile, <<>>, NoText),
   Node("dir", "rs", TextFile(<<"[package]">>), NoFile, <<>>, NoText)}
  \cup {RegularFile(e, NoBoundsSrc) : e \in {"rs", "RS", "txt", ""}}
  \cup {Directory(m, NoFile, <<>>) : m \in Manifests}

CommandLine(command, path, force, brute_force, number_of_items) ==
  [command |-> command, target |-> path, force |-> force, brute_force |-> brute_force,
   number_of_items |-> number_of_items]

World(tree, line, at, config, kind_, a) ==
  [fs |-> tree, cmd |-> line, pc |-> at, cfg |-> config, target |-> kind_, args |-> a]

NoArgs == Args("none", FALSE, "none")

\* Target resolution on every kind of path.
ResolutionWorlds ==
  {World([path \in Paths |-> IF path = "." THEN Directory(m, NoFile, <<>>) ELSE n],
         CommandLine(c, t, FALSE, FALSE, NoPath), "cli", DefaultConfig, NoTarget, NoArgs) :
     m \in Manifests, n \in ResolutionNodes, c \in {"prune", "check"},
     t \in {NoPath, ".", "p"}}

PatternLists ==
  {<<>>, <<"**/*.rs">>, <<"src/**">>, <<"src/**", "**/tests/**">>, DefaultConfig.exclude}

ArgLists == {<<>>, <<"--quiet">>}

WellFormedTexts ==
  {to_string_pretty(Config(i, e, CargoCheckConfig(a))) :
     i \in PatternLists \ {DefaultConfig.exclude}, e \in PatternLists \ {<<"**/*.rs">>},
     a \in ArgLists}
  \cup {to_string_pretty(DefaultConfig) \o <<Line("", "verbose", <<"1">>)>>,
        to_string_pretty(Config(<<"[">>, <<>>, DefaultCargoCheck))}

MalformedTexts ==
  {<<>>,
   SubSeq(to_string_pretty(DefaultConfig), 1, 2),
   SubSeq(to_string_pretty(DefaultConfig), 2, 3),
   to_string_pretty(DefaultConfig) \o <<Line("", "include", <<>>)>>,
   to_string_pretty(DefaultConfig) \o <<Line("", "=", <<>>)>>}

ConfigFiles == {NoFile, BadFile} \cup {TextFile(t) : t \in WellFormedTexts \cup MalformedTexts}

\* init and the loading of a configuration, on every kind of configuration
\* file; p is absent, a file of the directory or a directory of its own.
ConfigWorlds ==
  {World([path \in Paths |->
            IF path = "." THEN Directory(TextFile(<<"[package]">>), c, <<>>) ELSE n],
         line, "cli", DefaultConfig, NoTarget, NoArgs) :
     c \in ConfigFiles,
     n \in {Missing, RegularFile("rs", NoBoundsSrc),
            Directory(NoFile, NoFile, <<>>),
            Directory(NoFile, TextFile(to_string_pretty(Config(<<"src/**">>, <<>>, DefaultCargoCheck))), <<>>)},
     line \in {CommandLine("init", t, f, FALSE, NoPath) : t \in {NoPath, "p"}, f \in BOOLEAN}
              \cup {CommandLine("check", NoPath, FALSE, FALSE, NoPath)}}

\* A source tree with a build directory and tests; ignore files may cover
\* the generated file and the build directory.
Listing(gen_ignored, target_ignored) ==
  <<DirEntry(<<"src">>, "dir", FALSE, NoText),
    DirEntry(<<"src", "lib.rs">>, "file", FALSE, NoBoundsSrc),
    DirEntry(<<"src", "gen.rs">>, "file", gen_ignored, NoBoundsSrc),
    DirEntry(<<"target", "debug", "build.rs">>, "file", target_ignored, NoBoundsSrc),
    DirEntry(<<"tests", "it.rs">>, "file", FALSE, NoBoundsSrc),
    DirEntry(<<"README.md">>, "file", FALSE, NoText),
    DirEntry(<<"link.rs">>, "symlink", FALSE, NoText)>>

\* Discovery called with every pair of pattern lists.
DiscoveryWorlds ==
  {World([path \in Paths |->
            IF path = "." THEN Directory(TextFile(<<"[package]">>), NoFile, Listing(g, t))
            ELSE Missing],
         CommandLine("check", NoPath, FALSE, FALSE, "all"), "configured",
         Config(i, e, DefaultCargoCheck), TargetKind("Crate", "."),
         Args("check", FALSE, "Crate")) :
     g \in BOOLEAN, t \in BOOLEAN, i \in PatternLists \cup {<<"[">>},
     e \in PatternLists \cup {<<"[">>}}

SourceFiles == {OneParamSrc(2, "raw"), NoBoundsSrc, Garbage, Unreadable}

\* A crate of two source files, and a single file, under every command.
ProcessingWorlds ==
  {World([path \in Paths |->
            IF path = "."
            THEN Directory(TextFile(<<"[package]">>), NoFile,
                           <<DirEntry(<<"src", "a.rs">>, "file", FALSE, a),
                             DirEntry(<<"src", "b.rs">>, "file", FALSE, b)>>)
            ELSE RegularFile("rs", a)],
         CommandLine(c, t, FALSE, bf, n), "cli", DefaultConfig, NoTarget, NoArgs) :
     a \in SourceFiles, b \in SourceFiles, c \in {"prune", "check"}, t \in {NoPath, "p"},
     bf \in BOOLEAN, n \in {NoPath, "0", "1", "all"}}

Worlds == ResolutionWorlds \cup ConfigWorlds \cup DiscoveryWorlds \cup ProcessingWorlds

CliInit ==
  /\ \E w \in Worlds :
       /\ fs = w.fs
       /\ cmd = w.cmd
       /\ pc = w.pc
       /\ cfg = w.cfg
       /\ target = w.target
       /\ args = w.args
  /\ disk = NoText
  /\ pre_run = NoText
  /\ verifier = AnyVerifier
  /\ target_type = "function"
  /\ files = <<>>
  /\ todo = <<>>
  /\ error = NoError
  /\ run = 1
  /\ file = <<>>
  /\ items = collect_items_in_file(<<>>)
  /\ queue = <<>>
  /\ kind = "function"
  /\ syntax = <<>>
  /\ original_src = NoText
  /\ working = <<>>
  /\ current_src = NoText
  /\ current_hash = 0
  /\ outcomes = <<>>
  /\ candidates = <<>>
  /\ ci = 1
  /\ removed_any = FALSE
  /\ try_working = <<>>
  /\ modified = FALSE
  /\ updated_src = NoText
  /\ updated_hash = 0
  /\ verified = {}
  /\ verifier_runs = 0
  /\ trial = NoTrial
  /\ removed_bounds = {}
  /\ stats = [writes |-> 0, accepts |-> 0, noops |-> 0]
  /\ last_removed = [named |-> "", actual |-> {}]

CliNext ==
  \/ InitCmd
  \/ Resolve
  \/ OpenFile
  \/ LoadConfig
  \/ DiscoverFiles
  \/ ParseError
  \/ NextFile
  \/ MainParse
  \/ MainDryRun
  \/ MainRefuseSingleFile
  \/ MainCheck
  \/ PruneCall
  \/ MainReturn
  \/ PassBegin
  \/ PruneReturn
  \/ TrialEdit
  \/ TrialSkip
  \/ TrialWrite
  \/ WriteError
  \/ VerifySuccess
  \/ VerifyFailure
  \/ RevertError
  \/ VerifyError
  \/ PassEnd

CliSpec == CliInit /\ [][CliNext]_vars

\* The process has ended: main returned Ok after the last file, returned an
\* error, or called exit(1).
Exited == pc \in {"error", "refused"} \/ (pc = "done" /\ Len(todo) <= 1)

\* What the process exits with: 0 when main returns Ok, 1 otherwise.
ExitStatus == IF pc \in {"error", "refused"} THEN 1 ELSE 0

\* The conditions under which the run is to fail.
ResolutionFails == ~get_target(fs, cmd.target).ok

ConfigMalformed ==
  LET r == get_target(fs, cmd.target)
  IN /\ r.ok
     /\ r.value.variant # "SingleFile"
     /\ config_exists(fs, r.value.path)
     /\ \/ fs[r.value.path].config.state = "unreadable"
        \/ ~from_str(fs[r.value.path].config.lines).ok

BadFilesAmong(found) ==
  {k \in Range(found) : ~Parses(fs[target.path].entries[k].content)}

\* C21  Exit status: a prune or check run that completes exits with 0
\* whatever its ledger holds; the run exits non-zero, with the error
\* propagated, when target resolution fails, when a discovered file cannot
\* be read or parsed, or when the configuration file is malformed.
C21_ExitStatus ==
  (cmd.command \in {"prune", "check"} /\ Exited)
    => /\ pc = "done" => (ExitStatus = 0 /\ error.ok)
       /\ (ResolutionFails \/ ConfigMalformed \/ BadFilesAmong(files) # {})
            => (ExitStatus = 1 /\ ~error.ok)

\* The same with the files main reads in place of the discovered files: the
\* first top of them, and none when prune runs without --brute-force.
C21_ExitStatusOfFilesRead ==
  (cmd.command \in {"prune", "check"} /\ Exited)
    => /\ pc = "done" => (ExitStatus = 0 /\ error.ok)
       /\ (\/ ResolutionFails
           \/ ConfigMalformed
           \/ /\ executes(args) \/ args.command = "check"
              /\ BadFilesAmong(take(files, top_of(cmd.number_of_items))) # {})
            => (ExitStatus = 1 /\ ~error.ok)

\* The path the command line names and what main made of it.
NamedPath == IF cmd.target = NoPath THEN "." ELSE cmd.target

ResolutionFailed == target.variant = "none"

HasMarker(node) ==
  node.manifest.state = "text" /\ "[workspace]" \in Range(node.manifest.lines)

\* C22  Target resolution is a total classification: an existing regular
\* file is SingleFile iff its extension is rs and an error otherwise; an
\* existing directory is Workspace iff it has a Cargo.toml whose text holds
\* the [workspace] marker, Crate iff it has a Cargo.toml without the marker
\* and an error without Cargo.toml; a path that does not exist is an error;
\* an absent argument stands for the current directory.
C22_TargetResolution ==
  (cmd.command \in {"prune", "check"} /\ pc # "cli")
    => /\ target.variant \in {"none", "SingleFile", "Crate", "Workspace"}
       /\ ResolutionFailed => (pc = "error" /\ ~error.ok)
       /\ ~ResolutionFailed => target.path = NamedPath
       /\ fs[NamedPath].kind = "file"
            => /\ target.variant = "SingleFile" <=> fs[NamedPath].ext = "rs"
               /\ ResolutionFailed <=> fs[NamedPath].ext # "rs"
       /\ fs[NamedPath].kind = "dir"
            => /\ target.variant = "Workspace"
                    <=> (fs[NamedPath].manifest.state # "absent" /\ HasMarker(fs[NamedPath]))
               /\ target.variant = "Crate"
                    <=> (fs[NamedPath].manifest.state # "absent" /\ ~HasMarker(fs[NamedPath]))
               /\ ResolutionFailed <=> fs[NamedPath].manifest.state = "absent"
       /\ fs[NamedPath].kind = "missing" => ResolutionFailed

\* No argument was given and the current directory is a workspace root whose
\* manifest has the marker after a package section, while p is a crate.
C22_Witness ==
  /\ cmd.command = "prune"
  /\ cmd.target = NoPath
  /\ target = TargetKind("Workspace", ".")
  /\ fs["."].manifest.lines = <<"[package]", "[workspace]">>
  /\ fs["p"].kind = "dir" /\ fs["p"].manifest.state = "text" /\ ~HasMarker(fs["p"])
  /\ pc = "done"

\* The value a configuration text gives a key.
Loaded(lines, table, key) ==
  lines[CHOOSE k \in 1..Len(lines) : lines[k].table = table /\ lines[k].key = key].value

OrDefault(value, default) == IF Len(value) = 0 THEN default ELSE value

C23_Step ==
  (pc = "resolved" /\ pc' = "configured")
    => /\ fs[target.path].config.state = "absent" => cfg' = DefaultConfig
       /\ fs[target.path].config.state # "absent"
            => /\ fs[target.path].config.state = "text"
               /\ cfg'.include
                    = OrDefault(Loaded(fs[target.path].config.lines, "", "include"),
                                <<"**/*.rs">>)
               /\ cfg'.exclude
                    = OrDefault(Loaded(fs[target.path].config.lines, "", "exclude"),
                                <<"target/**", "**/.git/**", "**/tests/**">>)
               /\ cfg'.cargo_check.args
                    = OrDefault(Loaded(fs[target.path].config.lines, "cargo_check", "args"),
                                <<"--workspace", "--all-features", "--all-targets", "--quiet">>)
       /\ cfg'.include # <<>>
       /\ cfg'.exclude # <<>>
       /\ cfg'.cargo_check.args # <<>>

\* C23  Configuration defaults: a directory without a configuration file
\* loads as the default configuration; a loaded file's empty include or
\* exclude list becomes the default list of that field while the other
\* loaded fields are kept; after a successful load include, exclude and the
\* verifier arguments are never empty.
C23_ConfigDefaults == [][C23_Step]_vars

\* A file with an empty include list, its own exclude list and no verifier
\* arguments has been loaded.
C23_Witness ==
  /\ pc = "configured"
  /\ cmd.command = "check"
  /\ fs["."].config = TextFile(to_string_pretty(Config(<<>>, <<"src/**">>, CargoCheckConfig(<<>>))))
  /\ cfg = Config(<<"**/*.rs">>, <<"src/**">>, DefaultCargoCheck)

\* The directory init works in: the named path, or the directory of a named
\* file.
InitDir == IF fs[NamedPath].kind = "file" THEN "." ELSE NamedPath

ConfigPresent == fs[InitDir].kind = "dir" /\ fs[InitDir].config.state # "absent"

DefaultText ==
  TextFile(<<Line("", "include", <<"**/*.rs">>),
             Line("", "exclude", <<"target/**", "**/.git/**", "**/tests/**">>),
             Line("cargo_check", "args",
                  <<"--workspace", "--all-features", "--all-targets", "--quiet">>)>>)

C24_Step ==
  (pc = "cli" /\ cmd.command = "init")
    => /\ \A path \in Paths :
            /\ path # InitDir => fs'[path] = fs[path]
            /\ fs'[path] = [fs[path] EXCEPT !.config = fs'[path].config]
       /\ (fs[InitDir].kind = "dir" /\ ~ConfigPresent)
            => (fs'[InitDir].config = DefaultText /\ pc' = "done")
       /\ (ConfigPresent /\ ~cmd.force) => (fs' = fs /\ pc' = "done")
       /\ (ConfigPresent /\ cmd.force)
            => (fs'[InitDir].config = DefaultText /\ pc' = "done")
       /\ fs'[InitDir].config # fs[InitDir].config
            => /\ load_or_default(fs', InitDir).ok
               /\ load_or_default(fs', InitDir).value.include = DefaultConfig.include
               /\ load_or_default(fs', InitDir).value.exclude = DefaultConfig.exclude
       /\ fs[InitDir].kind # "dir" => (fs' = fs /\ pc' = "error")

\* C24  init overwrite rule: init writes the default configuration when
\* there is no configuration file; when there is one, init without --force
\* leaves its bytes as they are and init --force replaces it with the
\* default configuration; what init wrote loads back with the default
\* include and exclude lists.
C24_InitOverwrite == [][C24_Step]_vars

\* init without --force was given a file of a directory that has a
\* configuration of its own: the configuration is as it was.
C24_Witness ==
  /\ cmd.command = "init"
  /\ ~cmd.force
  /\ cmd.target = "p"
  /\ fs["p"].kind = "file"
  /\ pc = "done"
  /\ fs["."].config = TextFile(to_string_pretty(Config(<<"src/**">>, <<>>, CargoCheckConfig(<<>>))))

\* The entries of the root, and the regular .rs files among them that the
\* include and exclude lists select.
RootEntries == fs[target.path].entries

MatchesSome(list, rel) == \E k \in 1..Len(list) : glob_match(list[k], rel)

Selected(k) ==
  /\ RootEntries[k].type = "file"
  /\ extension(Last(RootEntries[k].rel)) = "rs"
  /\ MatchesSome(cfg.include, RootEntries[k].rel)
  /\ ~MatchesSome(cfg.exclude, RootEntries[k].rel)

SelectedOrAll(k) ==
  /\ RootEntries[k].type = "file"
  /\ extension(Last(RootEntries[k].rel)) = "rs"
  /\ cfg.include = <<>> \/ MatchesSome(cfg.include, RootEntries[k].rel)
  /\ ~MatchesSome(cfg.exclude, RootEntries[k].rel)

Discovered == pc = "configured" /\ pc' # "error"

C25_Step ==
  Discovered
    => /\ Range(files') = {k \in 1..Len(RootEntries) : Selected(k)}
       /\ \A k \in Range(files') :
            ~(MatchesSome(cfg.include, RootEntries[k].rel)
                /\ MatchesSome(cfg.exclude, RootEntries[k].rel))

\* C25  Exclude wins over include: discovery returns a file if and only if
\* it is a regular file with extension rs under the root whose root-relative
\* path matches at least one include pattern and no exclude pattern; a path
\* matching both an include and an exclude pattern is never returned.
C25_ExcludeWins == [][C25_Step]_vars

C25_WalkedStep ==
  /\ Discovered
       => /\ Range(files')
               = {k \in 1..Len(RootEntries) : SelectedOrAll(k) /\ ~RootEntries[k].ignored}
          /\ \A i, j \in 1..Len(files') : i < j => files'[i] < files'[j]
          /\ \A k \in Range(files') : ~MatchesSome(cfg.exclude, RootEntries[k].rel)
  /\ pc = "configured"
       => (pc' = "error" <=> \E p \in Range(cfg.include) \cup Range(cfg.exclude) : p = "[")

\* C25 as the code has it: among the entries the walk visits (those no
\* ignore file covers), and with an empty include list matching every path.
C25_ExcludeWinsAmongWalked == [][C25_WalkedStep]_vars

\* Every .rs file matches the include list, src is excluded and an ignore
\* file covers the generated file: the build script and the test are found.
C25_Witness ==
  /\ pc \in {"start", "done"}
  /\ cfg.include = <<"**/*.rs">>
  /\ cfg.exclude = <<"src/**">>
  /\ RootEntries[3].ignored /\ ~RootEntries[4].ignored
  /\ files = <<4, 5>>

\* ---- C30: a failed write in a trial

IoContexts == {"writing updated", "reverting"}

\* The step in which an fs::write of a trial fails.
IoFailure == error' # error /\ error'.context \in IoContexts

C30_Step ==
  /\ IoFailure
       => /\ pc \in {"edited", "verifying"}
          /\ ~error'.ok
          /\ error'.path = file_path
          /\ error'.context = (IF pc = "edited" THEN "writing updated" ELSE "reverting")
          /\ outcomes' = outcomes
          /\ ci' = ci /\ candidates' = candidates
          /\ working' = working /\ current_src' = current_src
          /\ pc' = "error"
  /\ ~(pc = "error" /\ error.context \in IoContexts)

\* C30  A failed write of the trial text, and a failed write of the baseline
\* after a failed verification, end the prune call with an error that names
\* the file: the ledger gets no entry for the trial, and nothing runs after
\* the error (no further candidate, pass or file).
C30_IoFailuresSurface == [][C30_Step]_vars

\* The baseline could not be written back after cargo check failed on the
\* second candidate of a pass, and the file is left with other bytes.
C30_Witness ==
  /\ pc = "error"
  /\ error = Err("reverting", file_path)
  /\ trial.ran
  /\ ci > 1
  /\ disk # current_src

\* ---- C26: working tree, baseline and file within a pass

\* Every bound of a tree, in source order.
BoundsInOrder(tree) ==
  Flatten([k \in 1..Len(tree) |->
             Flatten([j \in 1..Len(tree[k].generics.params) |->
                        tree[k].generics.params[j].bounds])
             \o Flatten([j \in 1..Len(tree[k].generics.where_clause.predicates) |->
                           tree[k].generics.where_clause.predicates[j].bounds])])

DeleteAt(s, i) == SubSeq(s, 1, i - 1) \o SubSeq(s, i + 1, Len(s))

\* new is old without one bound, the bound b; nothing else of a declaration
\* differs but its generics.
DiffersByBound(old, new, b) ==
  /\ Len(new) = Len(old)
  /\ \A k \in 1..Len(old) : new[k] = [old[k] EXCEPT !.generics = new[k].generics]
  /\ Cardinality({k \in 1..Len(old) : new[k] # old[k]}) = 1
  /\ \E i \in 1..Len(BoundsInOrder(old)) :
       /\ BoundsInOrder(old)[i] = b
       /\ BoundsInOrder(new) = DeleteAt(BoundsInOrder(old), i)

\* No trial is in flight: the pass is between two trials or two items.
C26_Quiescent ==
  pc \in {"loop", "for"}
    => /\ disk = current_src
       /\ current_hash = hash_bytes(current_src)

C26_Step ==
  /\ (pc = "verifying" /\ pc' = "loop")
       => /\ unparse(working') = current_src'
          /\ current_src' = updated_src /\ disk' = updated_src
          /\ DiffersByBound(working, working',
                            BoundAtSite(GenericsAt(working, bounds[1].item.span),
                                        candidates[ci].site))
          /\ syntax' = working'
  /\ (pc \in {"edited", "verifying"} /\ pc' = "for")
       => /\ working' = working
          /\ syntax' = syntax
          /\ current_src' = current_src
          /\ current_hash' = current_hash

\* C26  Within a prune pass, whenever no trial is in flight the file holds
\* the baseline text and the stored checksum is that text's checksum; an
\* accepted removal leaves a working tree that prints to the baseline just
\* written, differs from the previous working tree by the one bound taken
\* out, and equals the caller's tree; a rejected or skipped trial changes
\* none of working tree, baseline text and checksum.
C26_WorkingTreeConsistent == []C26_Quiescent /\ [][C26_Step]_vars

\* The second acceptance of a pass that also saw a rejection.
C26_Witness ==
  /\ pc = "loop"
  /\ trial.status = "success"
  /\ Cardinality({k \in 1..Len(outcomes) : outcomes[k].outcome = "Removed"}) = 2
  /\ \E k \in 1..Len(outcomes) : outcomes[k].outcome = "Retained"
  /\ unparse(working) = disk

\* ---- C27: termination of a prune pass

\* The command with a verifier whose every invocation returns an exit
\* status; a pass that was called keeps taking its next step.
LiveNext ==
  \/ MainParse
  \/ MainDryRun
  \/ MainRefuseSingleFile
  \/ MainCheck
  \/ PruneCall
  \/ MainReturn
  \/ PassBegin
  \/ PruneReturn
  \/ TrialEdit
  \/ TrialSkip
  \/ TrialWrite
  \/ VerifySuccess
  \/ VerifyFailure
  \/ PassEnd
  \/ Rerun

InPass == pc \in {"loop", "for", "edited", "verifying"}

\* A pass that was called moves on: every step of the pass changes its
\* position, and at every position of the pass one of its steps can be taken
\* (the two branches of the while, of the for and of the no-op guard, and the
\* two exit statuses of a verifier that returns).
PassMoves == InPass /\ pc' \in {"loop", "for", "edited", "verifying", "main"} /\ pc' # pc

LiveSpec == Init /\ [][LiveNext]_vars /\ WF_pc(PassMoves)

BoundsIn(tree) == Len(BoundsInOrder(tree))

\* A pass over the head item ends: with an acceptance and one bound less in
\* the working tree, or with none and one item less in the work list.
C27_Step ==
  (pc \in {"for", "verifying"} /\ pc' = "loop")
    => \/ /\ pc = "verifying"
          /\ Last(outcomes').outcome = "Removed"
          /\ BoundsIn(working') = BoundsIn(working) - 1
          /\ bounds' = bounds
       \/ /\ pc = "for"
          /\ ~removed_any
          /\ \A k \in 1..Len(outcomes) :
               k > Len(outcomes) - Len(candidates) => outcomes[k].outcome # "Removed"
          /\ working' = working
          /\ bounds' = Tail(bounds)

\* The trials of a pass: at most one candidate list per bound and per item.
C27_TrialsBounded ==
  InPass
    => trial.begun
         <= (BoundsIn(file) + Len(collect_items_in_file(file)[ItemsField(kind)]))
              * BoundsIn(file)

\* C27  Termination: with a verifier whose every invocation returns, a prune
\* pass that has started returns with an empty work list; each pass over the
\* head item either accepts one removal, which takes one bound out of the
\* working tree, or accepts none and drops the item, so the trials of a pass
\* are bounded.
C27_Terminates ==
  /\ [][C27_Step]_vars
  /\ []C27_TrialsBounded
  /\ (pc = "loop") ~> (pc = "main" /\ bounds = <<>>)

\* A pass returned after acceptances and rejections on the same item.
C27_Witness ==
  /\ pc = "main"
  /\ bounds = <<>>
  /\ trial.begun >= 4
  /\ \E k \in 1..Len(outcomes) : outcomes[k].outcome = "Removed"
  /\ \E k \in 1..Len(outcomes) : outcomes[k].outcome = "Retained"

\* ---- C28: the bounds an item keeps when it is dropped

\* The generics of the head item as the working tree has them.
HeadGenerics == GenericsAt(working, bounds[1].item.span)

\* The ledger entry of the j-th candidate of a pass that tried them all.
EntryOf(j) == outcomes[Len(outcomes) - Len(candidates) + j]

C28_Step ==
  (pc = "for" /\ pc' = "loop")
    => \A b \in BoundsOfGenerics(HeadGenerics) :
         \E j \in 1..Len(candidates) :
           /\ BoundAtSite(HeadGenerics, candidates[j].site) = b
           /\ EntryOf(j).outcome = "Retained"

\* C28  When the engine drops an item after a pass without acceptance, every
\* type-parameter bound and every where bound on a type that the item still
\* has in the working tree is the bound some trial of that pass actually took
\* out, and that trial ended Retained.
C28_SurvivorsTried == [][C28_Step]_vars

\* ---- C29: the editor finds what the extractor found

\* Every record the extractor produces from a tree, whatever its kind.
ExtractedFrom(tree) ==
  UNION {Range(collect_items_in_file(tree)[ItemsField(k)]) : k \in Range(PruneOrder)}

\* The editor, run on the tree with the record's key and the candidate,
\* removes a bound.
Locates(tree, rec, candidate) ==
  visit_file_mut(tree, rec.item.ident, rec.item.span, candidate).modified

\* The candidates on trial were derived from the tree the editor works on.
FreshCandidates ==
  /\ working = file
  /\ items = collect_items_in_file(file)
  /\ candidates = collect_candidates(bounds[1])

\* C29  Every item record the extractor produces from a parsed file, in
\* modules, function bodies and method bodies too, is found again by the
\* editor: with the record's anchor and name and any candidate derived from
\* the record, the traversal of an unmodified copy of the file reports
\* modified, so the trial of a fresh candidate is never Skipped for a
\* declaration that was not found.
C29_ExtractedLocatable ==
  /\ pc = "main"
       => \A rec \in ExtractedFrom(file) :
            \A c \in Range(collect_candidates(rec)) : Locates(file, rec, c)
  /\ (pc = "edited" /\ FreshCandidates) => modified

====
